---- MODULE Spec2Model ----
(***************************************************************************)
(* A model of the core of the Social Interaction Cloud runtime:            *)
(*   - SICRedis request/reply           (core/sic_redis.py)                *)
(*   - SICComponent lifecycle           (core/component_python2.py)        *)
(*   - SICSensor / SICActuator          (core/sensor_python2.py,           *)
(*                                       core/actuator_python2.py)         *)
(*   - SICService worker loop           (core/service_python2.py)          *)
(*   - SICComponentManager              (core/component_manager_python2.py)*)
(*                                                                         *)
(* Threads: the manager's callback thread (one request at a time), the     *)
(* manager's main thread (serve, stop, atexit), one start thread per       *)
(* component, one request-handler and one message-handler thread per       *)
(* component, one _listen thread per service.  Every timed wait            *)
(* (Event.wait(timeout)) may return because the event is set or because    *)
(* the timeout expired: time is abstracted to that choice.                 *)
(*                                                                         *)
(* Names that differ between the files of the source are read as the same  *)
(* thing: the sensor's _stop_event is the stop_event the manager passes in *)
(* (SICComponent._signal_to_stop), a component's component_id is its       *)
(* component_endpoint "<name>:<ip>", and the name= argument of the handler *)
(* registration is a label only.  The key-value calls of SICRedis          *)
(* (set_reservation, set_data_stream, unset_data_stream) have callers in   *)
(* the source but no body; they are modelled from the specification.       *)
(***************************************************************************)
EXTENDS Integers, Sequences, FiniteSets, TLC

\* ---------------------------------------------------------------- bounds
\* component instances one manager constructs in a run
MaxInst == 2
\* request ids are drawn from 1..MaxReqId
MaxReqId == 2
\* signals (SIGINT, SIGTERM) delivered to one application process
MaxInvocations == 2
\* input messages one service receives in a run that also consumes them
MaxMsgs == 4
\* messages one buffer receives beyond MAX_MESSAGE_BUFFER_SIZE
MaxDrops == 2
\* unregister_callback calls on one CallbackThread
MaxUnregister == 2
\* requests published on one request channel
MaxQueued == 3

\* ------------------------------------------------------------- constants
None == "None"
\* _request_id = None (SICMessage._request_id, the class default), kept apart
\* from every integer id
NoId == -2
\* SICIgnoreRequestMessage._request_id
IgnoreId == -1
\* protobuf default of SICMessageProto.request_id when it was never set
UnsetWireId == 0

Insts == 1..MaxInst
ReqIds == 1..MaxReqId
\* what a handler's returned message may carry in _request_id
RetIds == {NoId, IgnoreId, UnsetWireId} \cup ReqIds

\* component classes the manager can construct, by kind
Sensors == {"Camera"}
Actuators == {"Motor"}
Services == {"Aligner"}
Plain == {"Echo"}
component_classes == Sensors \cup Actuators \cup Services \cup Plain
\* a name some request may carry that the manager cannot construct
UnknownNames == {"Unknown"}
Inputs == {"in1", "in2"}
Clients == {"c1", "c2"}

\* SICService.MAX_MESSAGE_BUFFER_SIZE
MAX_MESSAGE_BUFFER_SIZE == 10
\* twice SICService.MAX_TIMESTAMP_DIFF_SECONDS (0.5)
TwiceMaxTimestampDiff == 1
\* the message classes the service declares in get_inputs()
Kinds == {"A", "B"}
\* the components that publish on the service's input channel
Srcs == {"s1", "s2"}
\* buffer keys: (message name, _previous_component_name)
Keys == Kinds \X Srcs
\* timestamps as they arrive from the wire; 0 is the unset timestamp
Ts == 0..2

\* ------------------------------------------------------------- variables
VARIABLES
    reservation,        \* bus key-value: reservation:<component_id> -> client_id | None
    data_stream,        \* bus key-value: data_stream:<channel> -> client_id | None
    active_components,  \* SICComponentManager.active_components: channel -> instance | 0
    constructed,        \* number of component instances constructed so far
    comp,               \* instance -> [name, input, client] (constructor arguments)
    ready_event,        \* SICComponent._ready_event
    signal_to_stop,     \* SICComponent._signal_to_stop
    stopped,            \* SICComponent._stopped
    active_calls,       \* SICComponent._active_calls
    no_active_calls,    \* SICComponent._no_active_calls
    handler_threads,    \* request/message handler threads: "none" | "request" (the
                        \* request handler alone) | "live" (both) | "stopped"
    worker,             \* the start thread and the worker loop it runs
    req,                \* request-handler thread of a component: where it is, the
                        \* request id it serves, the id on the reply it published
    msgPc,              \* message-handler thread: "idle" | "in_call" | "dead"
    cleaning,           \* number of _cleanup executions in progress
    cleanups,           \* number of _cleanup executions finished
    cb,                 \* the manager's callback thread, with the reply it published
    stopCall,           \* caller -> the SICComponent.stop() call it is executing
    main,               \* the manager's main thread
    stop_event,         \* SICComponentManager.stop_event
    closed,             \* SICRedis.stopping (close() was called)
    rq,                 \* client threads inside SICRedis.request on one channel
    pending,            \* requests published on that channel and not yet served
    conn,               \* SICConnector objects of the application
    app,                \* sic_application: module state and exit_handler frames
    svc,                \* one running SICService: its input buffers and output
    msgKind,            \* the class of the message a message-handler thread handles
    callbacks,          \* one SICRedis object: _running_callbacks, the subscribed
                        \* pubsubs and the last unregister_callback call
    wire,               \* one message: the object, its serialized form and the
                        \* object deserialize makes of it
    reqchan             \* one request channel and the request-handler subscription
                        \* on it: messages published, queued for the worker, the
                        \* invocations in progress, the replies published

busVars == <<reservation, data_stream>>
mgrVars == <<active_components, constructed, comp, stop_event, closed>>
evtVars == <<ready_event, signal_to_stop, stopped>>
callVars == <<active_calls, no_active_calls, req, msgPc>>
cleanVars == <<cleaning, cleanups>>
threadVars == <<cb, stopCall, main>>
clientVars == <<rq, pending, conn, app>>
libVars == <<callbacks, wire, reqchan>>
dataVars == <<svc, msgKind, libVars>>
vars == <<busVars, mgrVars, evtVars, callVars, cleanVars, threadVars,
          handler_threads, worker, clientVars, dataVars>>

\* ---------------------------------------------------------------- helpers
\* utils.create_data_stream_id: a fingerprint of (endpoint, input stream); the
\* model keeps the pair itself (the hash is taken to be collision free).
create_data_stream_id(component_endpoint, input_channel) ==
    <<component_endpoint, input_channel>>

Channels == {create_data_stream_id(n, i) : n \in component_classes, i \in Inputs}

\* request_reply_channel = component_channel + ":request_reply"
request_reply_channel(component_channel) == <<component_channel, "request_reply">>

\* SICRedis.set_reservation: the number of keys set (atomic set-if-absent)
set_reservation(res, component_id, client_id) ==
    IF res[component_id] = None THEN 1 ELSE 0

\* the key-value surface after set_reservation
reservation_after(res, component_id, client_id) ==
    IF res[component_id] = None
    THEN [res EXCEPT ![component_id] = client_id]
    ELSE res

\* SICSensor.__init__ / SICActuator.__init__: only these kinds reserve
Reserving(name) == name \in Sensors \cup Actuators

ReservationHeldMutant(res, name, client_id) == FALSE
\* "if self._redis.set_reservation(self.component_id, self.client_id) < 1: raise"
ReservationHeld(res, name, client_id) ==
    Reserving(name) /\ set_reservation(res, name, client_id) < 1

\* SICRedis._reply: the reply takes the request's id only when it has none
SICRedis_reply(request_id, reply_id) ==
    IF reply_id = NoId THEN request_id ELSE reply_id

\* SICMessage.serialize / deserialize of _request_id: unset travels as 0
wire_request_id(id) == IF id = NoId THEN UnsetWireId ELSE id

\* the request id a requester sees on the reply to request q when the handler
\* returned a message carrying reply_id
published_id(q, reply_id) == wire_request_id(SICRedis_reply(q, reply_id))

StopRunsCleanupMutant(stopped_in_time) == TRUE
\* SICComponent.stop: "if stopped: ... self._cleanup()  else: skip"
StopRunsCleanup(stopped_in_time) == stopped_in_time

\* a reply of the manager with what held when it was published:
\*   req, type    the request's and the reply's message class
\*   q, r         the request's id, the id on the published reply
\*   chan, rr     the channels the reply is about
\*   inst         active_components[chan] when the reply was published
\*   prevInst     active_components[chan] when the request arrived
\*   newInst      the instance this request constructed, else 0
\*   dup          the request equals the one that built prevInst, which is Ready
\*   readyInTime  _ready_event.is_set() after the wait of start_component
\*   heldBefore   the reservation was held when the request arrived
\*   holder       reservation[name] when the reply was published
\*   holderBefore reservation[name] when the request arrived
\*   dsAbsent, resAbsent   the keys are absent when the reply was published
NoReply == [req |-> "none", type |-> "none", q |-> 0, r |-> 0, chan |-> None,
            rr |-> None, inst |-> 0, prevInst |-> 0, newInst |-> 0, dup |-> FALSE,
            readyInTime |-> FALSE, heldBefore |-> FALSE, holder |-> None,
            holderBefore |-> None, dsAbsent |-> FALSE, resAbsent |-> FALSE,
            afterClose |-> FALSE]

NoComp == [name |-> None, input |-> None, client |-> None]
NoStop == [pc |-> "none", inst |-> 0, confirmed |-> FALSE, cleaned |-> FALSE,
           wasReady |-> FALSE, callsAtCleanup |-> 0, wasStopped |-> FALSE]
Callers == {"cb", "main"}
IdleCb == [pc |-> "idle", inst |-> 0, q |-> 0, prevInst |-> 0,
           holderBefore |-> None, dup |-> FALSE, reply |-> NoReply]
\* kind: the class of the request the thread took from the channel
IdleReq == [pc |-> "idle", q |-> 0, r |-> 0, kind |-> "none"]

ChanOf(i) == create_data_stream_id(comp[i].name, comp[i].input)

\* client threads that call SICRedis.request on one channel of one adapter
Requesters == {"r1", "r2"}
\* a message on that channel: a request (r is its id) or the reply a handler
\* published for request q (r is the id on the published reply)
NoMsg == [kind |-> "none", q |-> 0, r |-> 0]
RequestMsg(q) == [kind |-> "request", q |-> q, r |-> q]
ReplyMsg(q, reply_id) ==
    [kind |-> "reply", q |-> q, r |-> published_id(q, reply_id)]
\* a requester: where it is in request(), its request id, whether await_reply
\* was called with an ignore reply to its request, the content of the one-slot
\* queue, the subscriptions it has in _running_callbacks now and had when
\* request() was entered
\* request() was entered; step: the statement of StepsOfRequest it is at; live:
\* its await_reply subscription is installed
IdleRq == [pc |-> "idle", q |-> 0, sawIgnore |-> FALSE, got |-> NoMsg,
           subs |-> 0, before |-> 0, step |-> 0, live |-> FALSE]

\* what invokes exit_handler
Sources == {"SIGINT", "SIGTERM", "atexit"}
\* the outcomes of a connector's StartComponent request
StartReplies == {"ComponentStarted", "NotStarted", "Timeout"}
\* the connectors an application constructs
Connectors == {"k1", "k2"}
\* a connector: where its constructor or the object is, the manager's reply to
\* its StartComponent request, the error its constructor raised, whether it is
\* in _active_connectors, whether it published on its request/reply channel
\* after stop() had returned, the times exit_handler stopped it
NewConn == [pc |-> "new", reply |-> None, error |-> None, registered |-> FALSE,
            late |-> FALSE, stops |-> 0]
\* sic_application module state: exit handler registered, _app_logger created,
\* _cleanup_in_progress, _app_redis, the exit_handler frames on the main
\* thread's stack (innermost last), the close() calls on the shared handle,
\* the signals delivered, SystemExit raised, atexit handlers run,
\* _shutdown_event (None, or an Event that is clear or set)
InitApp == [registered |-> FALSE, logger |-> FALSE, flag |-> FALSE,
            redis |-> "none", frames |-> <<>>, closes |-> 0, invoked |-> 0,
            exiting |-> FALSE, atexit |-> FALSE, shutdown_event |-> None]

\* a MessageQueue: the deque (newest first) and dropped_messages_counter
NewQueue == [buf |-> <<>>, dropped |-> 0]
\* the output _process_and_output published: its timestamp and the timestamps
\* of the messages consumed for it
NoOut == [ts |-> -1, consumed |-> {}]
\* SICService.__init__: no buffers, _new_data_event clear; received counts the
\* messages on_message got per key, created is the key set of _input_buffers
InitSvc == [buffers |-> [key \in Keys |-> NewQueue], created |-> {},
            received |-> [key \in Keys |-> 0], new_data |-> FALSE, out |-> NoOut,
            twice_max_diff |-> TwiceMaxTimestampDiff, executed |-> 0,
            listen |-> "running", stop |-> FALSE]

\* the CallbackThread objects register_message_handler can return
CallbackThreads == {"t1", "t2", "t3"}
\* no unregister_callback call yet
NoCall == [thread |-> None, n |-> 0, raised |-> None, before |-> {}, after |-> {}]
\* a SICRedis object after __init__: "_running_callbacks = []", no pubsub
\* subscribed, no CallbackThread handed out, no unregister_callback call made
InitCallbacks == [running |-> <<>>, subscribed |-> {}, used |-> {},
                  calls |-> [t \in CallbackThreads |-> 0], last |-> NoCall]

\* the values of SICMessage._timestamp: None (the class default), an int, a
\* float, and the (seconds, microseconds) tuple SICRedis.time() returns
TimestampTypes == {"None", "int", "float", "tuple"}
Timestamp(type, sec, frac) == [type |-> type, sec |-> sec, frac |-> frac]
NoTimestamp == Timestamp("None", 0, 0)
Timestamps ==
    {NoTimestamp}
       \cup {Timestamp("int", sec, 0) : sec \in Ts}
       \cup {Timestamp(type, sec, frac) : type \in {"float", "tuple"}, sec \in Ts,
                                          frac \in 0..1}
\* the message classes of message_python2 registered with a wire field name
proto_field_name ==
    [SICPingRequest |-> "sic_ping_request", SICPongMessage |-> "sic_pong_message",
     SICSuccessMessage |-> "sic_success_message"]
MESSAGE_TYPE_REGISTRY ==
    [sic_ping_request |-> "SICPingRequest", sic_pong_message |-> "SICPongMessage",
     sic_success_message |-> "SICSuccessMessage"]
RegisteredKinds == DOMAIN proto_field_name
\* the message objects of the registered classes
Messages ==
    [kind : RegisteredKinds, timestamp : Timestamps,
     previous_component_name : {"", "Camera"}, request_id : {NoId} \cup ReqIds]
\* no message object made yet
NoWire == [stage |-> "none", m |-> None, data |-> None, out |-> None]

\* the ids of the requests published on the request channel
ChanReqs == 1..MaxQueued
\* a request channel after register_request_handler: nothing published, the
\* subscription's worker thread running and idle
InitChan == [order |-> <<>>, queue |-> <<>>, inv |-> {}, replies |-> <<>>,
             worker |-> "live"]

\* ------------------------------------------------------------------- Init
Init ==
    /\ reservation = [n \in component_classes |-> None]
    /\ data_stream = [c \in Channels |-> None]
    /\ active_components = [c \in Channels |-> 0]
    /\ constructed = 0
    /\ comp = [i \in Insts |-> NoComp]
    /\ ready_event = [i \in Insts |-> FALSE]
    /\ signal_to_stop = [i \in Insts |-> FALSE]
    /\ stopped = [i \in Insts |-> FALSE]
    /\ active_calls = [i \in Insts |-> 0]
    /\ no_active_calls = [i \in Insts |-> TRUE]
    /\ handler_threads = [i \in Insts |-> "none"]
    /\ worker = [i \in Insts |-> "none"]
    /\ req = [i \in Insts |-> IdleReq]
    /\ msgPc = [i \in Insts |-> "idle"]
    /\ cleaning = [i \in Insts |-> 0]
    /\ cleanups = [i \in Insts |-> 0]
    /\ cb = IdleCb
    /\ stopCall = [c \in Callers |-> NoStop]
    /\ main = [pc |-> "serve", todo |-> {}, runs |-> 0]
    /\ stop_event = FALSE
    /\ closed = FALSE
    /\ rq = [c \in Requesters |-> IdleRq]
    /\ pending = [used |-> {}, reqs |-> {}, replies |-> {}]
    /\ conn = [k \in Connectors |-> NewConn]
    /\ app = InitApp
    /\ svc = InitSvc
    /\ msgKind = [i \in Insts |-> None]
    /\ callbacks = InitCallbacks
    /\ wire = NoWire
    /\ reqchan = InitChan

\* a reply of the manager's request handler, as SICRedis._reply publishes it
Reply(request, type, q, reply_id) ==
    [NoReply EXCEPT !.req = request, !.type = type, !.q = q,
                    !.r = published_id(q, reply_id)]

\* the callback thread after wrapped_callback published the reply
Replied(reply) == [IdleCb EXCEPT !.pc = "replied", !.reply = reply]

ManagerCatchesMutant(request) == FALSE
\* start_component / stop_component: the body is inside "try: ... except
\* Exception as e: ... return SICNotStartedMessage(e)"; no other branch of
\* _handle_request catches
ManagerCatches(request) == request \in {"StartComponent", "StopComponent"}

\* an exception left the manager's _handle_request while serving a request of
\* class request: wrapped_callback re-raises it into the worker thread, which
\* ends unless close() was called
Dead(request) ==
    [IdleCb EXCEPT !.pc = IF closed THEN "idle" ELSE "dead",
                   !.reply = [NoReply EXCEPT !.req = request]]

\* the callback thread after something raised while it served request: the
\* except branch replies not_started, or the exception leaves the handler
Failed(request, not_started) ==
    IF ManagerCatches(request) THEN Replied(not_started) ELSE Dead(request)

\* SICComponent._begin_active_call
begin_active_call(i) ==
    /\ active_calls' = [active_calls EXCEPT ![i] = @ + 1]
    /\ no_active_calls' = [no_active_calls EXCEPT
                             ![i] = IF active_calls[i] + 1 = 1 THEN FALSE ELSE @]

end_active_callMutant(i) ==
    LET n == IF active_calls[i] > 0 THEN active_calls[i] - 1 ELSE active_calls[i]
    IN /\ active_calls' = [active_calls EXCEPT ![i] = n]
       /\ no_active_calls' = [no_active_calls EXCEPT ![i] = TRUE]
\* SICComponent._end_active_call
end_active_call(i) ==
    LET n == IF active_calls[i] > 0 THEN active_calls[i] - 1 ELSE active_calls[i]
    IN /\ active_calls' = [active_calls EXCEPT ![i] = n]
       /\ no_active_calls' = [no_active_calls EXCEPT ![i] = IF n = 0 THEN TRUE ELSE @]

\* -------------------------------------------- SICComponentManager requests
\* _handle_request: SICPingRequest -> SICPongMessage
manager_ping(q) ==
    /\ cb.pc = "idle" /\ ~closed
    /\ cb' = Replied(Reply("Ping", "Pong", q, NoId))
    /\ UNCHANGED <<busVars, mgrVars, evtVars, callVars, cleanVars, stopCall, main,
                   handler_threads, worker>>
    /\ UNCHANGED <<clientVars, dataVars>>

\* _handle_request: a request of a class it has no branch for; it returns None,
\* the assertion of wrapped_callback fails
manager_unknown_request(q) ==
    /\ cb.pc = "idle" /\ ~closed
    /\ cb' = Failed("Unknown", Reply("Unknown", "none", q, NoId))
    /\ UNCHANGED <<busVars, mgrVars, evtVars, callVars, cleanVars, stopCall, main,
                   handler_threads, worker>>
    /\ UNCHANGED <<clientVars, dataVars>>

\* _handle_request: SICStopRequest -> stop_event.set(), then "return
\* SICSuccessMessage()": the reply is not published yet
manager_stop_request(q) ==
    /\ cb.pc = "idle" /\ ~closed
    /\ stop_event' = TRUE
    /\ cb' = [IdleCb EXCEPT !.pc = "stop_ack", !.q = q,
                            !.reply = Reply("StopRequest", "Success", q, NoId)]
    /\ UNCHANGED <<busVars, active_components, constructed, comp, closed, evtVars,
                   callVars, cleanVars, stopCall, main, handler_threads, worker>>
    /\ UNCHANGED <<clientVars, dataVars>>

\* wrapped_callback of register_request_handler: "self._reply(channel, request,
\* reply)" after the handler returned; afterClose records whether close() had
\* already run on the manager's connection
manager_stop_ack ==
    /\ cb.pc = "stop_ack"
    /\ cb' = Replied([cb.reply EXCEPT !.afterClose = closed])
    /\ UNCHANGED <<busVars, mgrVars, evtVars, callVars, cleanVars, stopCall, main,
                   handler_threads, worker>>
    /\ UNCHANGED <<clientVars, dataVars>>

\* _handle_request: a start request for a name that is not in component_classes
manager_ignore_start(name, q) ==
    /\ cb.pc = "idle" /\ ~closed
    /\ name \notin component_classes
    /\ cb' = Replied(Reply("StartComponent", "Ignore", q, IgnoreId))
    /\ UNCHANGED <<busVars, mgrVars, evtVars, callVars, cleanVars, stopCall, main,
                   handler_threads, worker>>
    /\ UNCHANGED <<clientVars, dataVars>>

\* _handle_request: a stop request for an id that is not in active_components
manager_ignore_stop(chan, q) ==
    /\ cb.pc = "idle" /\ ~closed
    /\ active_components[chan] = 0
    /\ cb' = Replied([Reply("StopComponent", "Ignore", q, IgnoreId) EXCEPT
                        !.chan = chan])
    /\ UNCHANGED <<busVars, mgrVars, evtVars, callVars, cleanVars, stopCall, main,
                   handler_threads, worker>>
    /\ UNCHANGED <<clientVars, dataVars>>

\* start_component up to "component._ready_event.wait(COMPONENT_STARTUP_TIMEOUT)":
\* construct the component (a sensor or actuator reserves in __init__ and raises
\* when the reservation is held), put it in active_components, start its thread.
start_component(name, input_channel, client_id, q) ==
    /\ LET chan == create_data_stream_id(name, input_channel)
           i == constructed + 1
           prev == active_components[chan]
           dup == /\ prev # 0
                  /\ ready_event[prev]
                  /\ comp[prev] = [name |-> name, input |-> input_channel,
                                   client |-> client_id]
       IN /\ cb.pc = "idle" /\ ~closed
          /\ name \in component_classes
          /\ IF ReservationHeld(reservation, name, client_id)
             THEN \* the constructor raised: component is None, reply NotStarted
                  /\ cb' = Failed("StartComponent",
                                  [Reply("StartComponent", "NotStarted", q, NoId) EXCEPT
                                      !.chan = chan, !.prevInst = prev, !.inst = prev,
                                      !.dup = dup,
                                      !.heldBefore = (reservation[name] # None),
                                      !.holderBefore = reservation[name],
                                      !.holder = reservation[name]])
                  /\ UNCHANGED <<busVars, mgrVars, worker>>
             ELSE /\ constructed < MaxInst
                  /\ reservation' = IF Reserving(name)
                                    THEN reservation_after(reservation, name, client_id)
                                    ELSE reservation
                  /\ constructed' = i
                  /\ comp' = [comp EXCEPT ![i] = [name |-> name, input |-> input_channel,
                                                  client |-> client_id]]
                  /\ active_components' = [active_components EXCEPT ![chan] = i]
                  /\ worker' = [worker EXCEPT ![i] = "starting"]
                  /\ cb' = [IdleCb EXCEPT !.pc = "start_wait", !.inst = i, !.q = q,
                                          !.prevInst = prev, !.dup = dup,
                                          !.holderBefore = reservation[name]]
                  /\ UNCHANGED <<data_stream, stop_event, closed>>
          /\ UNCHANGED <<evtVars, callVars, cleanVars, stopCall, main, handler_threads>>
    /\ UNCHANGED <<clientVars, dataVars>>

\* start_component from the return of the wait: log when not ready, set the data
\* stream, reply SICComponentStartedMessage.
start_component_reply ==
    /\ LET i == cb.inst
           chan == ChanOf(i)
           name == comp[i].name
       IN /\ cb.pc = "start_wait"
          /\ data_stream' = [data_stream EXCEPT ![chan] = comp[i].client]
          /\ cb' = Replied([Reply("StartComponent", "ComponentStarted", cb.q, NoId) EXCEPT
                              !.chan = chan, !.rr = request_reply_channel(chan),
                              !.prevInst = cb.prevInst,
                              !.inst = active_components[chan], !.newInst = i,
                              !.dup = cb.dup, !.readyInTime = ready_event[i],
                              !.heldBefore = (Reserving(name) /\ cb.holderBefore # None),
                              !.holderBefore = cb.holderBefore,
                              !.holder = reservation[name]])
          /\ UNCHANGED <<reservation, mgrVars, evtVars, callVars, cleanVars, stopCall,
                         main, handler_threads, worker>>
    /\ UNCHANGED <<clientVars, dataVars>>

\* wrapped_callback returns: the callback thread takes the next request
callback_return ==
    /\ cb.pc = "replied"
    /\ cb' = IdleCb
    /\ UNCHANGED <<busVars, mgrVars, evtVars, callVars, cleanVars, stopCall, main,
                   handler_threads, worker>>
    /\ UNCHANGED <<clientVars, dataVars>>

\* ------------------------------------------------------ SICComponent.stop
\* "self._signal_to_stop.set()" and the start of the wait for _stopped
BeginStop(c, i) ==
    /\ signal_to_stop' = [signal_to_stop EXCEPT ![i] = TRUE]
    /\ stopCall' = [stopCall EXCEPT ![c] =
                      [NoStop EXCEPT !.pc = "wait_stopped", !.inst = i,
                                     !.wasReady = ready_event[i],
                                     !.wasStopped =
                                        /\ stopped[i] /\ cleanups[i] > 0
                                        /\ \A d \in Callers \ {c} :
                                              stopCall[d].inst # i]]

EventWaitReturnsMutant(is_set) == is_set
\* threading.Event.wait(timeout=COMPONENT_STOP_TIMEOUT): returns when the
\* event is set and, at the latest, when the timeout has elapsed
EventWaitReturns(is_set) == TRUE

\* "stopped = self._stopped.wait(timeout=COMPONENT_STOP_TIMEOUT)" returns; when
\* not stopped the cleanup is skipped and stop() returns
stop_wait_stopped(c) ==
    /\ LET i == stopCall[c].inst
           in_time == stopped[i]
       IN /\ stopCall[c].pc = "wait_stopped"
          /\ EventWaitReturns(stopped[i])
          /\ stopCall' = [stopCall EXCEPT ![c] =
                            [@ EXCEPT !.confirmed = in_time,
                                      !.pc = IF StopRunsCleanup(in_time)
                                             THEN "wait_calls" ELSE "returned"]]
          /\ UNCHANGED <<busVars, mgrVars, evtVars, callVars, cleanVars, cb, main,
                         handler_threads, worker>>
    /\ UNCHANGED <<clientVars, dataVars>>

\* "self._no_active_calls.wait(timeout=COMPONENT_STOP_TIMEOUT)" returns (its result
\* is not looked at) and _cleanup starts
stop_wait_calls(c) ==
    /\ LET i == stopCall[c].inst
       IN /\ stopCall[c].pc = "wait_calls"
          /\ EventWaitReturns(no_active_calls[i])
          /\ cleaning' = [cleaning EXCEPT ![i] = @ + 1]
          /\ stopCall' = [stopCall EXCEPT ![c] =
                            [@ EXCEPT !.pc = "cleanup", !.callsAtCleanup = active_calls[i]]]
          /\ UNCHANGED <<busVars, mgrVars, evtVars, callVars, cleanups, cb, main,
                         handler_threads, worker>>
    /\ UNCHANGED <<clientVars, dataVars>>

\* _cleanup returns (or raises: the error is logged), stop() returns
stop_cleanup_done(c) ==
    /\ LET i == stopCall[c].inst
       IN /\ stopCall[c].pc = "cleanup"
          /\ cleaning' = [cleaning EXCEPT ![i] = @ - 1]
          /\ cleanups' = [cleanups EXCEPT ![i] = @ + 1]
          /\ stopCall' = [stopCall EXCEPT ![c] =
                            [@ EXCEPT !.pc = "returned", !.cleaned = TRUE]]
          /\ UNCHANGED <<busVars, mgrVars, evtVars, callVars, cb, main,
                         handler_threads, worker>>
    /\ UNCHANGED <<clientVars, dataVars>>

\* ------------------------------------------------------- stop_component
\* _handle_request -> stop_component up to the wait inside component.stop()
stop_component(chan, q) ==
    /\ LET i == active_components[chan]
       IN /\ cb.pc = "idle" /\ ~closed
          /\ i # 0
          /\ BeginStop("cb", i)
          /\ cb' = [IdleCb EXCEPT !.pc = "in_stop", !.inst = i, !.q = q]
          /\ UNCHANGED <<busVars, mgrVars, ready_event, stopped, callVars, cleanVars,
                         main, handler_threads, worker>>
    /\ UNCHANGED <<clientVars, dataVars>>

\* stop_component after component.stop() returned: unregister the handler threads
\* (None when start never registered them: the AttributeError is caught and the
\* reply is NotStarted), unset the data stream, delete from active_components.
stop_component_finish ==
    /\ LET i == cb.inst
           chan == ChanOf(i)
       IN /\ cb.pc = "in_stop"
          /\ stopCall["cb"].pc = "returned"
          /\ IF handler_threads[i] \in {"none", "request"}
             THEN /\ cb' = Failed("StopComponent",
                                  [Reply("StopComponent", "NotStarted", cb.q, NoId) EXCEPT
                                      !.chan = chan, !.inst = i])
                  /\ UNCHANGED <<data_stream, active_components, handler_threads>>
             ELSE /\ handler_threads' = [handler_threads EXCEPT ![i] = "stopped"]
                  /\ data_stream' = [data_stream EXCEPT ![chan] = None]
                  /\ active_components' = [active_components EXCEPT ![chan] = 0]
                  /\ cb' = Replied([Reply("StopComponent", "Success", cb.q, NoId) EXCEPT
                                      !.chan = chan, !.inst = i,
                                      !.dsAbsent = (data_stream'[chan] = None),
                                      !.holder = reservation[comp[i].name],
                                      !.resAbsent = (reservation[comp[i].name] = None)])
          /\ stopCall' = [stopCall EXCEPT !["cb"] = NoStop]
          /\ UNCHANGED <<reservation, constructed, comp, stop_event, closed, evtVars,
                         callVars, cleanVars, main, worker>>
    /\ UNCHANGED <<clientVars, dataVars>>

\* stop_component: component.stop() raised (a subclass's stop()); the except
\* branch replies NotStarted, nothing is unregistered or removed
stop_component_stop_raises ==
    /\ cb.pc = "in_stop"
    /\ stopCall["cb"].pc = "wait_stopped"
    /\ cb' = Failed("StopComponent",
                    [Reply("StopComponent", "NotStarted", cb.q, NoId) EXCEPT
                        !.chan = ChanOf(cb.inst), !.inst = cb.inst])
    /\ stopCall' = [stopCall EXCEPT !["cb"] = NoStop]
    /\ UNCHANGED <<busVars, mgrVars, evtVars, callVars, cleanVars, main,
                   handler_threads, worker>>
    /\ UNCHANGED <<clientVars, dataVars>>

\* ---------------------------------------- SICComponentManager main thread
\* list(self.active_components.values())
ActiveInstances == {active_components[c] : c \in Channels} \ {0}

\* the threads the interpreter joins before it runs the atexit handlers: the
\* callback threads (daemon=False) and the component start threads
NonDaemonThreadsDone ==
    /\ cb.pc \in {"idle", "dead"}
    /\ \A i \in Insts : /\ worker[i] \notin {"starting", "produce"}
                        /\ req[i].pc \in {"idle", "dead"}
                        /\ msgPc[i] \in {"idle", "dead"}

\* serve(): the loop ends on stop_event or on KeyboardInterrupt, then stop()
\* starts: stop_event.set(), snapshot of the active components
serve_exit(interrupt) ==
    /\ main.pc = "serve"
    /\ stop_event \/ interrupt
    /\ stop_event' = TRUE
    /\ main' = [pc |-> "stopping", todo |-> ActiveInstances, runs |-> 1]
    /\ UNCHANGED <<busVars, active_components, constructed, comp, closed, evtVars,
                   callVars, cleanVars, cb, stopCall, handler_threads, worker>>
    /\ UNCHANGED <<clientVars, dataVars>>

\* atexit.register(self.stop): stop() runs a second time when the process exits
atexit_stop ==
    /\ main.pc = "served"
    /\ NonDaemonThreadsDone
    /\ main' = [pc |-> "stopping", todo |-> ActiveInstances, runs |-> 2]
    /\ UNCHANGED <<busVars, mgrVars, evtVars, callVars, cleanVars, cb, stopCall,
                   handler_threads, worker>>
    /\ UNCHANGED <<clientVars, dataVars>>

\* SICComponentManager.stop: "for component in ...: component.stop()", next one
manager_stop_next(i) ==
    /\ main.pc = "stopping"
    /\ stopCall["main"].pc \in {"none", "returned"}
    /\ i \in main.todo
    /\ BeginStop("main", i)
    /\ main' = [main EXCEPT !.todo = @ \ {i}]
    /\ UNCHANGED <<busVars, mgrVars, ready_event, stopped, callVars, cleanVars, cb,
                   handler_threads, worker>>
    /\ UNCHANGED <<clientVars, dataVars>>

\* SICComponentManager.stop: "self.redis.close()" unsubscribes every callback
manager_stop_close ==
    /\ main.pc = "stopping"
    /\ stopCall["main"].pc \in {"none", "returned"}
    /\ main.todo = {}
    /\ closed' = TRUE
    /\ handler_threads' = [i \in Insts |->
                             IF handler_threads[i] = "live" THEN "stopped"
                             ELSE handler_threads[i]]
    /\ stopCall' = [stopCall EXCEPT !["main"] = NoStop]
    /\ main' = [main EXCEPT !.pc = IF main.runs = 1 THEN "served" ELSE "exited"]
    /\ UNCHANGED <<busVars, active_components, constructed, comp, stop_event,
                   evtVars, callVars, cleanVars, cb, worker>>
    /\ UNCHANGED <<clientVars, dataVars>>

\* ------------------------------------------------- component start threads
\* SICComponent._start -> start(): register the handlers, set _ready_event; a
\* sensor then runs _produce in this thread, a service starts its _listen thread
component_start(i) ==
    /\ worker[i] = "starting"
    /\ handler_threads' = [handler_threads EXCEPT ![i] = "live"]
    /\ ready_event' = [ready_event EXCEPT ![i] = TRUE]
    /\ worker' = [worker EXCEPT ![i] =
                    IF comp[i].name \in Sensors THEN "produce"
                    ELSE IF comp[i].name \in Services THEN "listen"
                    ELSE "done"]
    /\ UNCHANGED <<busVars, mgrVars, signal_to_stop, stopped, callVars, cleanVars,
                   threadVars>>
    /\ UNCHANGED <<clientVars, dataVars>>

\* SICComponent.start, first statement: "self.request_handler_thread =
\* self._redis.register_request_handler(self.request_reply_channel, ...)"
component_register_request(i) ==
    /\ worker[i] = "starting"
    /\ handler_threads[i] = "none"
    /\ handler_threads' = [handler_threads EXCEPT ![i] = "request"]
    /\ UNCHANGED <<busVars, mgrVars, evtVars, callVars, cleanVars, threadVars, worker>>
    /\ UNCHANGED <<clientVars, dataVars>>

\* SICComponent.start, second statement: "self.message_handler_thread =
\* self._redis.register_message_handler(self.input_channel, ...)"
component_register_message(i) ==
    /\ worker[i] = "starting"
    /\ handler_threads[i] = "request"
    /\ handler_threads' = [handler_threads EXCEPT ![i] = "live"]
    /\ UNCHANGED <<busVars, mgrVars, evtVars, callVars, cleanVars, threadVars, worker>>
    /\ UNCHANGED <<clientVars, dataVars>>

ReadyFollowsMutant(handlers) == TRUE
\* SICComponent.start: "self._ready_event.set()" is the statement after the
\* two registrations
ReadyFollows(handlers) == handlers = "live"

\* SICComponent.start, last statement: "self._ready_event.set()"; start()
\* returns, a sensor goes on into _produce, a service starts _listen
component_set_ready(i) ==
    /\ worker[i] = "starting"
    /\ ReadyFollows(handler_threads[i])
    /\ ready_event' = [ready_event EXCEPT ![i] = TRUE]
    /\ worker' = [worker EXCEPT ![i] =
                    IF comp[i].name \in Sensors THEN "produce"
                    ELSE IF comp[i].name \in Services THEN "listen"
                    ELSE "done"]
    /\ UNCHANGED <<busVars, mgrVars, signal_to_stop, stopped, callVars, cleanVars,
                   threadVars, handler_threads>>
    /\ UNCHANGED <<clientVars, dataVars>>

\* SICComponent._start: start() raised; the exception is logged and re-raised in
\* the component's own thread
component_start_raises(i) ==
    /\ worker[i] = "starting"
    /\ worker' = [worker EXCEPT ![i] = "raised"]
    /\ UNCHANGED <<busVars, mgrVars, evtVars, callVars, cleanVars, threadVars,
                   handler_threads>>
    /\ UNCHANGED <<clientVars, dataVars>>

\* SICSensor._produce: the loop ends when the stop event is set
produce_exit(i) ==
    /\ worker[i] = "produce"
    /\ signal_to_stop[i]
    /\ worker' = [worker EXCEPT ![i] = "done"]
    /\ UNCHANGED <<busVars, mgrVars, evtVars, callVars, cleanVars, threadVars,
                   handler_threads>>
    /\ UNCHANGED <<clientVars, dataVars>>

\* SICService._listen: the loop ends when _signal_to_stop is set, then
\* "self._stopped.set()"
listen_exit(i) ==
    /\ worker[i] = "listen"
    /\ signal_to_stop[i]
    /\ stopped' = [stopped EXCEPT ![i] = TRUE]
    /\ worker' = [worker EXCEPT ![i] = "done"]
    /\ UNCHANGED <<busVars, mgrVars, ready_event, signal_to_stop, callVars,
                   cleanVars, threadVars, handler_threads>>
    /\ UNCHANGED <<clientVars, dataVars>>

\* ----------------------------------------------- component handler threads
\* register_message_handler.exception_handler: "if not self.stopping: raise e";
\* an exception that leaves it ends PubSubWorkerThread.run: the worker is dead
\* and nothing published on the channel afterwards reaches the handler
after_exception(stopping) == IF stopping THEN "idle" ELSE "dead"

\* SICComponent._handle_request: SICPingRequest -> SICPongMessage, replied by
\* the wrapped_callback of register_request_handler
handle_request_ping(i, q) ==
    /\ handler_threads[i] = "live"
    /\ req[i].pc = "idle"
    /\ req' = [req EXCEPT ![i] = [pc |-> "replied", q |-> q,
                                  r |-> published_id(q, NoId),
                                  kind |-> "SICPingRequest"]]
    /\ UNCHANGED <<busVars, mgrVars, evtVars, active_calls, no_active_calls, msgPc,
                   cleanVars, threadVars, handler_threads, worker>>
    /\ UNCHANGED <<clientVars, dataVars>>

\* SICComponent._handle_request: a request that is no control request enters
\* on_request
handle_request_begin(i, q) ==
    /\ handler_threads[i] = "live"
    /\ req[i].pc = "idle"
    /\ begin_active_call(i)
    /\ req' = [req EXCEPT ![i] = [pc |-> "in_call", q |-> q, r |-> 0,
                                  kind |-> "SICRequest"]]
    /\ UNCHANGED <<busVars, mgrVars, evtVars, msgPc, cleanVars, threadVars,
                   handler_threads, worker>>
    /\ UNCHANGED <<clientVars, dataVars>>

\* on_request returns a message carrying reply_id; wrapped_callback calls _reply
handle_request_end(i, reply_id) ==
    /\ req[i].pc = "in_call"
    /\ end_active_call(i)
    /\ req' = [req EXCEPT ![i] = [pc |-> "replied", q |-> req[i].q,
                                  r |-> published_id(req[i].q, reply_id),
                                  kind |-> req[i].kind]]
    /\ UNCHANGED <<busVars, mgrVars, evtVars, msgPc, cleanVars, threadVars,
                   handler_threads, worker>>
    /\ UNCHANGED <<clientVars, dataVars>>

\* on_request raises: the finally clause ends the call, nothing is replied,
\* wrapped_callback logs and re-raises into the subscription's worker thread
handle_request_raises(i) ==
    /\ req[i].pc = "in_call"
    /\ end_active_call(i)
    /\ req' = [req EXCEPT ![i] = [IdleReq EXCEPT !.pc = after_exception(closed)]]
    /\ UNCHANGED <<busVars, mgrVars, evtVars, msgPc, cleanVars, threadVars,
                   handler_threads, worker>>
    /\ UNCHANGED <<clientVars, dataVars>>

\* the control request classes of message_python2: SICControlRequest and its
\* subclasses SICPingRequest and SICStopRequest
SICControlRequest == {"SICPingRequest", "SICStopRequest"}

\* SICComponent._handle_request on a control request that is no ping (the
\* SICStopRequest SICConnector.stop publishes on the request/reply channel):
\* both tests fail and "raise ComponentRequestError" leaves the callback, is
\* re-raised by wrapped_callback and by exception_handler unless stopping
handle_request_control(i, q) ==
    /\ handler_threads[i] = "live"
    /\ req[i].pc = "idle"
    /\ req' = [req EXCEPT ![i] = [pc |-> after_exception(closed), q |-> q, r |-> 0,
                                  kind |-> "SICStopRequest"]]
    /\ UNCHANGED <<busVars, mgrVars, evtVars, active_calls, no_active_calls, msgPc,
                   cleanVars, threadVars, handler_threads, worker>>
    /\ UNCHANGED <<clientVars, dataVars>>

\* a request that is no control request is published on the request/reply
\* channel of a component whose request worker has ended: the subscription
\* is still registered, no thread runs wrapped_callback for it
handle_request_lost(i, q) ==
    /\ handler_threads[i] = "live"
    /\ req[i].pc = "dead"
    /\ req[i].kind # "SICRequest"
    /\ req' = [req EXCEPT ![i] = [pc |-> "dead", q |-> q, r |-> 0,
                                  kind |-> "SICRequest"]]
    /\ UNCHANGED <<busVars, mgrVars, evtVars, active_calls, no_active_calls, msgPc,
                   cleanVars, threadVars, handler_threads, worker>>
    /\ UNCHANGED <<clientVars, dataVars>>

\* wrapped_callback returns: the handler thread takes the next request
handle_request_return(i) ==
    /\ req[i].pc = "replied"
    /\ req' = [req EXCEPT ![i] = IdleReq]
    /\ UNCHANGED <<busVars, mgrVars, evtVars, active_calls, no_active_calls, msgPc,
                   cleanVars, threadVars, handler_threads, worker>>
    /\ UNCHANGED <<clientVars, dataVars>>

\* the message classes published on input channels: A2 is a subclass of the
\* declared class A, X is declared by no component
MsgKinds == {"A", "A2", "X"}
\* the names of the classes in type(message).__mro__
Mro(kind) == IF kind = "A2" THEN {"A2", "A"} ELSE {kind}

\* utils.is_sic_instance: a class of the object's __mro__ has the name of cls
is_sic_instance(kind, cls) == cls \in Mro(kind)

\* get_inputs() of component class name: sensors and actuators declare no
\* input ("return []"), the other classes declare Kinds
get_inputs(name) == IF name \in Sensors \cup Actuators THEN {} ELSE Kinds

\* SICComponent._handle_message: "if expected_inputs:" the message must be an
\* instance of a declared class; with nothing declared it is forwarded as-is
Forwarded(name, kind) ==
    get_inputs(name) # {} => \E cls \in get_inputs(name) : is_sic_instance(kind, cls)

\* SICComponent._handle_message: a message that passes the validation enters
\* on_message
handle_message_begin(i, kind) ==
    /\ handler_threads[i] = "live"
    /\ msgPc[i] = "idle"
    /\ Forwarded(comp[i].name, kind)
    /\ begin_active_call(i)
    /\ msgPc' = [msgPc EXCEPT ![i] = "in_call"]
    /\ msgKind' = [msgKind EXCEPT ![i] = kind]
    /\ UNCHANGED <<busVars, mgrVars, evtVars, req, cleanVars, threadVars,
                   handler_threads, worker>>
    /\ UNCHANGED <<clientVars, svc, libVars>>

\* SICComponent._handle_message: a message of no declared class is logged and
\* "return None", on_message is not called
handle_message_ignored(i, kind) ==
    /\ handler_threads[i] = "live"
    /\ msgPc[i] = "idle"
    /\ ~Forwarded(comp[i].name, kind)
    /\ msgPc' = [msgPc EXCEPT ![i] = "ignored"]
    /\ msgKind' = [msgKind EXCEPT ![i] = kind]
    /\ UNCHANGED <<busVars, mgrVars, evtVars, active_calls, no_active_calls, req,
                   cleanVars, threadVars, handler_threads, worker>>
    /\ UNCHANGED <<clientVars, svc, libVars>>

\* on_message raises: the finally clause ends the call, wrapped_callback logs
\* and re-raises into the subscription's worker thread
handle_message_raises(i) ==
    /\ msgPc[i] = "in_call"
    /\ end_active_call(i)
    /\ msgPc' = [msgPc EXCEPT ![i] = after_exception(closed)]
    /\ msgKind' = [msgKind EXCEPT ![i] = None]
    /\ UNCHANGED <<busVars, mgrVars, evtVars, req, cleanVars, threadVars,
                   handler_threads, worker>>
    /\ UNCHANGED <<clientVars, svc, libVars>>

\* on_message returns: the finally clause ends the call
handle_message_end(i) ==
    /\ msgPc[i] = "in_call"
    /\ end_active_call(i)
    /\ msgPc' = [msgPc EXCEPT ![i] = "idle"]
    /\ msgKind' = [msgKind EXCEPT ![i] = None]
    /\ UNCHANGED <<busVars, mgrVars, evtVars, req, cleanVars, threadVars,
                   handler_threads, worker>>
    /\ UNCHANGED <<clientVars, svc, libVars>>

\* _handle_message returned None for an ignored message: the handler thread
\* takes the next message
handle_message_ignored_return(i) ==
    /\ msgPc[i] = "ignored"
    /\ msgPc' = [msgPc EXCEPT ![i] = "idle"]
    /\ msgKind' = [msgKind EXCEPT ![i] = None]
    /\ UNCHANGED <<busVars, mgrVars, evtVars, active_calls, no_active_calls, req,
                   cleanVars, threadVars, handler_threads, worker>>
    /\ UNCHANGED <<clientVars, svc, libVars>>

\* ------------------------------------------------------ SICRedis.request
AwaitAcceptsMutant(q, m) == m.kind # "request" /\ (m.r = q \/ m.r = IgnoreId)
\* await_reply: "not is_sic_instance(reply, SICRequest) and
\* reply._request_id == request._request_id"
AwaitAccepts(q, m) == m.kind # "request" /\ m.r = q

\* the subscription's worker calls await_reply with a received message: the
\* requester's record after it (q.put on the full one-slot queue blocks, the
\* first message put stays)
await_reply(w, m) ==
    [w EXCEPT !.sawIgnore = @ \/ m = ReplyMsg(w.q, IgnoreId),
              !.got = IF AwaitAccepts(w.q, m) /\ w.got = NoMsg THEN m ELSE @]

\* pubsub delivery: the worker of every live await_reply subscription is called
\* with the message (a worker that has not run when the wait times out has the
\* effect of one that runs after it)
Publish(r, m) ==
    [c \in Requesters |-> IF r[c].pc = "waiting" \/ r[c].live
                          THEN await_reply(r[c], m) ELSE r[c]]

\* request() up to "done.wait(timeout)": register_message_handler(channel,
\* await_reply), then send_message(channel, request).  Request ids are not
\* reused (SICRequest.__init__ draws them at random).
request_send(c, q) ==
    /\ rq[c].pc = "idle"
    /\ q \notin pending.used
    /\ rq' = Publish([rq EXCEPT ![c] = [@ EXCEPT !.pc = "waiting", !.q = q,
                                                !.sawIgnore = FALSE,
                                                !.got = NoMsg, !.before = rq[c].subs,
                                                !.subs = @ + 1]],
                     RequestMsg(q))
    /\ pending' = [pending EXCEPT !.used = @ \cup {q}, !.reqs = @ \cup {q}]
    /\ UNCHANGED <<busVars, mgrVars, evtVars, callVars, cleanVars, threadVars,
                   handler_threads, worker, dataVars, conn, app>>

StepsOfRequestMutant == <<"publish", "subscribe">>
\* the two statements of a blocking request() before the wait: "callback_thread
\* = self.register_message_handler(channel, await_reply)", then
\* "self.send_message(channel, request)"
StepsOfRequest == <<"subscribe", "publish">>

\* request(channel, request, block=True) is entered; the request id is set
request_call(c, q) ==
    /\ rq[c].pc = "idle"
    /\ q \notin pending.used
    /\ rq' = [rq EXCEPT ![c] = [@ EXCEPT !.pc = "calling", !.q = q, !.step = 1,
                                         !.sawIgnore = FALSE, !.got = NoMsg,
                                         !.before = rq[c].subs]]
    /\ pending' = [pending EXCEPT !.used = @ \cup {q}]
    /\ UNCHANGED <<busVars, mgrVars, evtVars, callVars, cleanVars, threadVars,
                   handler_threads, worker, dataVars, conn, app>>

\* register_message_handler(channel, await_reply): the subscription is live
request_subscribe(c) ==
    /\ rq[c].pc = "calling" /\ rq[c].step \in 1..2
    /\ StepsOfRequest[rq[c].step] = "subscribe"
    /\ rq' = [rq EXCEPT ![c] = [@ EXCEPT !.step = @ + 1, !.live = TRUE,
                                         !.subs = @ + 1]]
    /\ UNCHANGED <<busVars, mgrVars, evtVars, callVars, cleanVars, threadVars,
                   handler_threads, worker, dataVars, pending, conn, app>>

\* send_message(channel, request): the request is on the channel, for the
\* handler and for every live subscription; the call has not returned yet
request_publish(c) ==
    /\ rq[c].pc = "calling" /\ rq[c].step \in 1..2
    /\ StepsOfRequest[rq[c].step] = "publish"
    /\ rq' = Publish([rq EXCEPT ![c] = [@ EXCEPT !.step = @ + 1]],
                     RequestMsg(rq[c].q))
    /\ pending' = [pending EXCEPT !.reqs = @ \cup {rq[c].q}]
    /\ UNCHANGED <<busVars, mgrVars, evtVars, callVars, cleanVars, threadVars,
                   handler_threads, worker, dataVars, conn, app>>

\* both statements returned: "done.wait(timeout)"
request_wait(c) ==
    /\ rq[c].pc = "calling" /\ rq[c].step = 3
    /\ rq' = [rq EXCEPT ![c] = [@ EXCEPT !.pc = "waiting", !.step = 0]]
    /\ UNCHANGED <<busVars, mgrVars, evtVars, callVars, cleanVars, threadVars,
                   handler_threads, worker, dataVars, pending, conn, app>>

\* a request handler on the channel serves request q: its callback returns a
\* message carrying reply_id and wrapped_callback publishes it with _reply
handler_reply(q, reply_id) ==
    /\ q \in pending.reqs
    /\ rq' = Publish(rq, ReplyMsg(q, reply_id))
    /\ pending' = [pending EXCEPT !.reqs = @ \ {q},
                                  !.replies = @ \cup {ReplyMsg(q, reply_id)}]
    /\ UNCHANGED <<busVars, mgrVars, evtVars, callVars, cleanVars, threadVars,
                   handler_threads, worker, dataVars, conn, app>>

\* done.wait returned with done set: unregister_callback, return q.get()
request_return(c) ==
    /\ rq[c].pc = "waiting"
    /\ rq[c].got # NoMsg
    /\ rq' = [rq EXCEPT ![c] = [@ EXCEPT !.pc = "returned", !.subs = @ - 1,
                                         !.live = FALSE]]
    /\ UNCHANGED <<busVars, mgrVars, evtVars, callVars, cleanVars, threadVars,
                   handler_threads, worker, dataVars, pending, conn, app>>

\* done.wait timed out and done is not set: "raise TimeoutError(...)", the
\* statements after it are not reached
request_timeout(c) ==
    /\ rq[c].pc = "waiting"
    /\ rq[c].got = NoMsg
    /\ rq' = [rq EXCEPT ![c] = [@ EXCEPT !.pc = "timedout"]]
    /\ UNCHANGED <<busVars, mgrVars, evtVars, callVars, cleanVars, threadVars,
                   handler_threads, worker, dataVars, pending, conn, app>>

\* the caller goes on after request() returned or raised
request_done(c) ==
    /\ rq[c].pc \in {"returned", "timedout"}
    /\ rq' = [rq EXCEPT ![c] = [IdleRq EXCEPT !.subs = rq[c].subs,
                                              !.before = rq[c].subs]]
    /\ UNCHANGED <<busVars, mgrVars, evtVars, callVars, cleanVars, threadVars,
                   handler_threads, worker, dataVars, pending, conn, app>>

\* ------------------------------------- SICRedis: callbacks of one object
\* register_message_handler: "pubsub.subscribe(...)", run_in_thread,
\* "self._running_callbacks.append(c)", return c
register_message_handler(t) ==
    /\ t \notin callbacks.used
    /\ callbacks' = [callbacks EXCEPT !.running = Append(@, t),
                                      !.subscribed = @ \cup {t},
                                      !.used = @ \cup {t}]
    /\ UNCHANGED <<busVars, mgrVars, evtVars, callVars, cleanVars, threadVars,
                   handler_threads, worker, clientVars, svc, msgKind, wire, reqchan>>

\* list.remove(x): the list without its first x
RECURSIVE ListRemove(_, _)
ListRemove(list, x) ==
    IF list = <<>> THEN <<>>
    ELSE IF Head(list) = x THEN Tail(list)
    ELSE <<Head(list)>> \o ListRemove(Tail(list), x)

\* the elements of a list
Elems(list) == {list[j] : j \in 1..Len(list)}

\* "self._running_callbacks.remove(callback_thread)": list.remove raises
\* ValueError when the element is not in the list
remove_raises(list, x) == IF x \in Elems(list) THEN None ELSE "ValueError"

\* unregister_callback(callback_thread): "callback_thread.pubsub.unsubscribe()",
\* "callback_thread.thread.stop()", "self._running_callbacks.remove(
\* callback_thread)"; last records the call: its number on this object, the
\* exception that left it, the subscribed pubsubs before and after it
unregister_callback(t) ==
    /\ t \in callbacks.used
    /\ callbacks.calls[t] < MaxUnregister
    /\ callbacks' = [callbacks EXCEPT
                       !.subscribed = @ \ {t},
                       !.running = ListRemove(@, t),
                       !.calls[t] = @ + 1,
                       !.last = [thread |-> t, n |-> callbacks.calls[t] + 1,
                                 raised |-> remove_raises(callbacks.running, t),
                                 before |-> callbacks.subscribed,
                                 after |-> callbacks.subscribed \ {t}]]
    /\ UNCHANGED <<busVars, mgrVars, evtVars, callVars, cleanVars, threadVars,
                   handler_threads, worker, clientVars, svc, msgKind, wire, reqchan>>

\* ------------------------------- SICRedis: one request-handler subscription
\* a client publishes request q on the channel: the broker queues it for the
\* subscription in publication order
channel_publish(q) ==
    /\ q \notin Elems(reqchan.order)
    /\ reqchan' = [reqchan EXCEPT
                     !.order = Append(@, q),
                     !.queue = Append(@, [kind |-> "request", q |-> q])]
    /\ UNCHANGED <<busVars, mgrVars, evtVars, callVars, cleanVars, threadVars,
                   handler_threads, worker, clientVars, svc, msgKind, callbacks, wire>>

WorkerFreeMutant(inv) == TRUE
\* register_message_handler: "thread = pubsub.run_in_thread(...)", one thread
\* per subscription, which calls wrapped_callback with one message and takes
\* the next when the call has returned
WorkerFree(inv) == inv = {}

\* the worker takes a request: register_request_handler.wrapped_callback
\* calls "reply = callback(request)"
worker_invoke ==
    /\ reqchan.worker = "live" /\ WorkerFree(reqchan.inv)
    /\ reqchan.queue # <<>> /\ Head(reqchan.queue).kind = "request"
    /\ reqchan' = [reqchan EXCEPT
                     !.queue = Tail(@),
                     !.inv = @ \cup {[q |-> Head(reqchan.queue).q, stage |-> "callback"]}]
    /\ UNCHANGED <<busVars, mgrVars, evtVars, callVars, cleanVars, threadVars,
                   handler_threads, worker, clientVars, svc, msgKind, callbacks, wire>>

\* the worker takes a message that is no request (a reply published on the
\* channel): "if is_sic_instance(request, SICRequest)" fails, nothing is called
worker_skip ==
    /\ reqchan.worker = "live" /\ WorkerFree(reqchan.inv)
    /\ reqchan.queue # <<>> /\ Head(reqchan.queue).kind = "reply"
    /\ reqchan' = [reqchan EXCEPT !.queue = Tail(@)]
    /\ UNCHANGED <<busVars, mgrVars, evtVars, callVars, cleanVars, threadVars,
                   handler_threads, worker, clientVars, svc, msgKind, callbacks, wire>>

\* callback(request) returned a message
worker_callback_returns(q) ==
    /\ [q |-> q, stage |-> "callback"] \in reqchan.inv
    /\ reqchan' = [reqchan EXCEPT
                     !.inv = (@ \ {[q |-> q, stage |-> "callback"]})
                                \cup {[q |-> q, stage |-> "reply"]}]
    /\ UNCHANGED <<busVars, mgrVars, evtVars, callVars, cleanVars, threadVars,
                   handler_threads, worker, clientVars, svc, msgKind, callbacks, wire>>

\* callback(request) raised: wrapped_callback re-raises, the worker ends
\* unless the connection is stopping
worker_callback_raises(q) ==
    /\ [q |-> q, stage |-> "callback"] \in reqchan.inv
    /\ reqchan' = [reqchan EXCEPT
                     !.inv = @ \ {[q |-> q, stage |-> "callback"]},
                     !.worker = IF after_exception(closed) = "dead" THEN "dead" ELSE @]
    /\ UNCHANGED <<busVars, mgrVars, evtVars, callVars, cleanVars, threadVars,
                   handler_threads, worker, clientVars, svc, msgKind, callbacks, wire>>

\* "self._reply(channel, request, reply)": the reply is published on the same
\* channel, wrapped_callback returns
worker_reply(q) ==
    /\ [q |-> q, stage |-> "reply"] \in reqchan.inv
    /\ reqchan' = [reqchan EXCEPT
                     !.inv = @ \ {[q |-> q, stage |-> "reply"]},
                     !.replies = Append(@, q),
                     !.queue = Append(@, [kind |-> "reply", q |-> q])]
    /\ UNCHANGED <<busVars, mgrVars, evtVars, callVars, cleanVars, threadVars,
                   handler_threads, worker, clientVars, svc, msgKind, callbacks, wire>>

\* ---------------------------------------------------- SICMessage on the wire
\* a message object is made and its metadata set
message_create(m) ==
    /\ wire.stage = "none"
    /\ wire' = [NoWire EXCEPT !.stage = "created", !.m = m]
    /\ UNCHANGED <<busVars, mgrVars, evtVars, callVars, cleanVars, threadVars,
                   handler_threads, worker, clientVars, svc, msgKind, callbacks, reqchan>>

\* serialize, timestamp: None -> 0, a tuple -> its seconds, else int(value)
wire_timestamp(timestamp) == IF timestamp.type = "None" THEN 0 ELSE timestamp.sec

\* SICMessage.serialize: the payload under the class's _proto_field_name,
\* timestamp, previous_component_name, and request_id when it is not None
\* (the field's default on the wire is 0)
serialize(m) ==
    [payload |-> proto_field_name[m.kind],
     timestamp |-> wire_timestamp(m.timestamp),
     previous_component_name |-> m.previous_component_name,
     request_id |-> wire_request_id(m.request_id)]

\* SICMessage.deserialize: the class of MESSAGE_TYPE_REGISTRY for the payload
\* field, "_timestamp = pb_msg.timestamp", "_previous_component_name = ...",
\* "_request_id = pb_msg.request_id"
deserialize(data) ==
    [kind |-> MESSAGE_TYPE_REGISTRY[data.payload],
     timestamp |-> Timestamp("int", data.timestamp, 0),
     previous_component_name |-> data.previous_component_name,
     request_id |-> data.request_id]

\* send_message: "message.serialize()"
message_serialize ==
    /\ wire.stage = "created"
    /\ wire' = [wire EXCEPT !.stage = "serialized", !.data = serialize(wire.m)]
    /\ UNCHANGED <<busVars, mgrVars, evtVars, callVars, cleanVars, threadVars,
                   handler_threads, worker, clientVars, svc, msgKind, callbacks, reqchan>>

\* parse_pubsub_message: "SICMessage.deserialize(data)"
message_deserialize ==
    /\ wire.stage = "serialized"
    /\ wire' = [wire EXCEPT !.stage = "deserialized", !.out = deserialize(wire.data)]
    /\ UNCHANGED <<busVars, mgrVars, evtVars, callVars, cleanVars, threadVars,
                   handler_threads, worker, clientVars, svc, msgKind, callbacks, reqchan>>

\* the receiver drops the object; the next message is made
message_drop ==
    /\ wire.stage = "deserialized"
    /\ wire' = NoWire
    /\ UNCHANGED <<busVars, mgrVars, evtVars, callVars, cleanVars, threadVars,
                   handler_threads, worker, clientVars, svc, msgKind, callbacks, reqchan>>

\* -------------------------------------------------------------- SICService
IsFullMutant(q) == FALSE
\* MessageQueue._is_full: "len(self) == self.maxlen"
IsFull(q) == Len(q.buf) = MAX_MESSAGE_BUFFER_SIZE

\* MessageQueue.appendleft: count a drop when full, then deque.appendleft,
\* which discards the item at the right end of a full deque
appendleft(q, message) ==
    [buf |-> IF Len(q.buf) >= MAX_MESSAGE_BUFFER_SIZE
             THEN <<message>> \o SubSeq(q.buf, 1, MAX_MESSAGE_BUFFER_SIZE - 1)
             ELSE <<message>> \o q.buf,
     dropped |-> IF IsFull(q) THEN q.dropped + 1 ELSE q.dropped]

\* SICService._get_buffer_key
get_buffer_key(message) == <<message.kind, message.src>>

\* the values a service class gives MAX_TIMESTAMP_DIFF_SECONDS, doubled: 0,
\* the default 0.5, and 1
TwiceMaxDiffs == {0, TwiceMaxTimestampDiff, 2}

\* a service class that sets the class attribute MAX_TIMESTAMP_DIFF_SECONDS
\* is the one that runs
service_subclass(twice_max_diff) ==
    /\ svc = InitSvc
    /\ twice_max_diff # TwiceMaxTimestampDiff
    /\ svc' = [svc EXCEPT !.twice_max_diff = twice_max_diff]
    /\ UNCHANGED <<busVars, mgrVars, evtVars, callVars, cleanVars, threadVars,
                   handler_threads, worker, clientVars, msgKind, libVars>>

\* SICService.on_message: buffer the message under its key (the buffer is
\* created on the key's first message), set _new_data_event; n is the
\* arrival number of the message on its key
service_on_message(kind, src, ts) ==
    /\ LET key == get_buffer_key([kind |-> kind, src |-> src])
           message == [kind |-> kind, src |-> src, ts |-> ts,
                       n |-> svc.received[key] + 1]
       IN svc' = [svc EXCEPT !.buffers[key] = appendleft(@, message),
                             !.created = @ \cup {key},
                             !.received[key] = @ + 1,
                             !.new_data = TRUE]
    /\ UNCHANGED <<busVars, mgrVars, evtVars, callVars, cleanVars, threadVars,
                   handler_threads, worker, clientVars, msgKind, libVars>>

\* the messages on_message got so far
RECURSIVE SumReceived(_)
SumReceived(keys) ==
    IF keys = {} THEN 0
    ELSE LET key == CHOOSE k \in keys : TRUE
         IN svc.received[key] + SumReceived(keys \ {key})

Abs(x) == IF x < 0 THEN -x ELSE x
Min(S) == CHOOSE x \in S : \A y \in S : x <= y

\* SICService._validate_buffers_ready: one buffer per declared input
validate_buffers_ready == Cardinality(svc.created) = Cardinality(Kinds)

\* SICService._get_reference_timestamp: the oldest of the buffers' newest
\* timestamps (buffer[0] of each buffer)
get_reference_timestamp ==
    Min({svc.buffers[key].buf[1].ts : key \in svc.created})

\* SICService._find_aligned_message: the index of the first message of the
\* buffer within MAX_TIMESTAMP_DIFF_SECONDS of the reference, 0 for None
find_aligned_message(buf, reference_timestamp) ==
    LET near == {j \in 1..Len(buf) :
                   2 * Abs(buf[j].ts - reference_timestamp) <= svc.twice_max_diff}
    IN IF near = {} THEN 0 ELSE Min(near)

\* SICService._pop_aligned_messages does not raise AlignmentError
CanAlign ==
    /\ validate_buffers_ready
    /\ \A key \in svc.created : svc.buffers[key].buf # <<>>
    /\ \A key \in svc.created :
          find_aligned_message(svc.buffers[key].buf, get_reference_timestamp) # 0

\* deque.remove of the item at index j
Remove(buf, j) == SubSeq(buf, 1, j - 1) \o SubSeq(buf, j + 1, Len(buf))

FailedAttemptLeavesMutant(buffers) ==
    [key \in Keys |->
       IF /\ validate_buffers_ready
          /\ key \in svc.created
          /\ \A k \in svc.created : buffers[k].buf # <<>>
          /\ find_aligned_message(buffers[key].buf, get_reference_timestamp) # 0
       THEN [buffers[key] EXCEPT
               !.buf = Remove(@, find_aligned_message(@, get_reference_timestamp))]
       ELSE buffers[key]]
\* SICService._pop_aligned_messages: _validate_buffers_ready,
\* _get_reference_timestamp and _collect_aligned_messages raise AlignmentError
\* before "self._consume_messages(aligned_messages)" is reached
FailedAttemptLeaves(buffers) == buffers

\* SICService._consume_messages after _collect_aligned_messages: the aligned
\* message of every buffer is removed
consume_messages ==
    [key \in Keys |->
       IF key \in svc.created
       THEN [svc.buffers[key] EXCEPT
               !.buf = Remove(@, find_aligned_message(@, get_reference_timestamp))]
       ELSE svc.buffers[key]]

\* SICService._listen, one round with _new_data_event set: clear the event,
\* _pop_aligned_messages (AlignmentError: next round), execute, and when it
\* returned an output: "output._timestamp = timestamp", output_message
service_listen(produces) ==
    /\ svc.listen = "running" /\ ~svc.stop
    /\ svc.new_data /\ svc.out = NoOut
    /\ IF CanAlign
       THEN LET ref == get_reference_timestamp
                at(key) == find_aligned_message(svc.buffers[key].buf, ref)
            IN svc' = [svc EXCEPT
                         !.new_data = FALSE,
                         !.buffers = consume_messages,
                         !.executed = @ + 1,
                         !.out = IF produces
                                 THEN [ts |-> ref,
                                       consumed |-> {svc.buffers[key].buf[at(key)].ts :
                                                       key \in svc.created}]
                                 ELSE NoOut]
       ELSE svc' = [svc EXCEPT !.new_data = FALSE,
                               !.buffers = FailedAttemptLeaves(@)]
    /\ UNCHANGED <<busVars, mgrVars, evtVars, callVars, cleanVars, threadVars,
                   handler_threads, worker, clientVars, msgKind, libVars>>

\* SICService._listen, a round in which execute raises: _process_and_output
\* is called outside the try of _listen and catches nothing, the exception
\* leaves the loop and the thread's target, "self._stopped.set()" is skipped
service_execute_raises ==
    /\ svc.listen = "running" /\ ~svc.stop
    /\ svc.new_data /\ svc.out = NoOut
    /\ CanAlign
    /\ svc' = [svc EXCEPT !.new_data = FALSE,
                          !.buffers = consume_messages,
                          !.executed = @ + 1,
                          !.listen = "ended"]
    /\ UNCHANGED <<busVars, mgrVars, evtVars, callVars, cleanVars, threadVars,
                   handler_threads, worker, clientVars, msgKind, libVars>>

\* SICService._listen, a round during which on_message of the handler thread
\* appends to a buffer the round iterates ("for message in buffer" of
\* _find_aligned_message): the deque iterator raises RuntimeError, which is no
\* AlignmentError and leaves the loop
service_scan_mutated(kind, src, ts) ==
    /\ svc.listen = "running" /\ ~svc.stop
    /\ svc.new_data /\ svc.out = NoOut
    /\ validate_buffers_ready
    /\ \A key \in svc.created : svc.buffers[key].buf # <<>>
    /\ get_buffer_key([kind |-> kind, src |-> src]) \in svc.created
    /\ LET key == get_buffer_key([kind |-> kind, src |-> src])
           message == [kind |-> kind, src |-> src, ts |-> ts,
                       n |-> svc.received[key] + 1]
       IN svc' = [svc EXCEPT !.buffers[key] = appendleft(@, message),
                             !.received[key] = @ + 1,
                             !.new_data = TRUE,
                             !.listen = "ended"]
    /\ UNCHANGED <<busVars, mgrVars, evtVars, callVars, cleanVars, threadVars,
                   handler_threads, worker, clientVars, msgKind, libVars>>

\* SICComponent.stop: "self._signal_to_stop.set()"
service_signal_stop ==
    /\ ~svc.stop
    /\ svc' = [svc EXCEPT !.stop = TRUE]
    /\ UNCHANGED <<busVars, mgrVars, evtVars, callVars, cleanVars, threadVars,
                   handler_threads, worker, clientVars, msgKind, libVars>>

\* SICService._listen: the loop test finds _signal_to_stop set, the loop ends
\* and "self._stopped.set()" runs
service_listen_exit ==
    /\ svc.listen = "running" /\ svc.stop
    /\ svc' = [svc EXCEPT !.listen = "stopped"]
    /\ UNCHANGED <<busVars, mgrVars, evtVars, callVars, cleanVars, threadVars,
                   handler_threads, worker, clientVars, msgKind, libVars>>

\* SICService._process_and_output returns
service_output_done ==
    /\ svc.out # NoOut
    /\ svc' = [svc EXCEPT !.out = NoOut]
    /\ UNCHANGED <<busVars, mgrVars, evtVars, callVars, cleanVars, threadVars,
                   handler_threads, worker, clientVars, msgKind, libVars>>

\* ------------------------------------------------------------ SICConnector
\* the application's main thread runs its own code: no exit_handler frame is
\* on its stack and SystemExit was not raised
MainRuns == app.frames = <<>> /\ ~app.exiting

\* component_class.get_request_reply_channel(ip): "<ComponentName>:reqreply:
\* <deviceIP>", a name made of the component's name and the device only; kept
\* in the shape of request_reply_channel's names
get_request_reply_channel(name) == <<<<name, "reqreply">>, None>>

\* component_class.get_general_output_channel(ip): "<ComponentName>:
\* <deviceIP>", kept in the shape of create_data_stream_id's names
get_general_output_channel(name) == <<name, None>>

\* SICConnector.define_output_channel
define_output_channel(component_id, input_stream) ==
    create_data_stream_id(component_id, input_stream)

\* SICConnector.__init__: the output channel of a connector of client
\* client_id for component class name; a sensor's is defined from the
\* client id, any other is the general output channel
connector_output_channel(name, client_id) ==
    IF name \in Sensors THEN define_output_channel(name, client_id)
    ELSE get_general_output_channel(name)

\* SICConnector.__init__: "if not self._ping()"; a Pong skips the start
connector_ping(k, pong) ==
    /\ MainRuns
    /\ conn[k].pc = "new"
    /\ conn' = [conn EXCEPT ![k].pc = IF pong THEN "connect" ELSE "starting"]
    /\ UNCHANGED <<busVars, mgrVars, evtVars, callVars, cleanVars, cb, stopCall, main,
                   handler_threads, worker, dataVars, rq, pending, app>>

\* the exception that leaves _start_component for the manager's reply: the
\* TimeoutError is raised anew, the ComponentNotStartedError raised inside the
\* try is caught by "except Exception as e: logging.error(...)"
start_component_error(reply) ==
    IF reply = "Timeout" THEN "DeviceUnreachable" ELSE None

\* SICConnector._start_component: the StartComponent request and its outcome;
\* __init__ wraps an exception in RuntimeError
connector_start_reply(k, reply) ==
    /\ MainRuns
    /\ conn[k].pc = "starting"
    /\ conn' = [conn EXCEPT ![k].reply = reply,
                            ![k].error = start_component_error(reply),
                            ![k].pc = IF start_component_error(reply) = None
                                      THEN "ping2" ELSE "failed"]
    /\ UNCHANGED <<busVars, mgrVars, evtVars, callVars, cleanVars, cb, stopCall, main,
                   handler_threads, worker, dataVars, rq, pending, app>>

\* SICConnector.__init__: "assert self._ping()" after _start_component
connector_ping2(k, pong) ==
    /\ MainRuns
    /\ conn[k].pc = "ping2"
    /\ conn' = [conn EXCEPT ![k].pc = IF pong THEN "connect" ELSE "failed",
                            ![k].error = IF pong THEN None ELSE "AssertionError"]
    /\ UNCHANGED <<busVars, mgrVars, evtVars, callVars, cleanVars, cb, stopCall, main,
                   handler_threads, worker, dataVars, rq, pending, app>>

\* SICConnector.__init__: the ConnectRequest of a connector whose component is
\* not a sensor (none for a sensor); a TimeoutError leaves the constructor
connector_connect(k, ok) ==
    /\ MainRuns
    /\ conn[k].pc = "connect"
    /\ conn' = [conn EXCEPT ![k].pc = IF ok THEN "ready" ELSE "failed",
                            ![k].error = IF ok THEN None ELSE "TimeoutError"]
    /\ UNCHANGED <<busVars, mgrVars, evtVars, callVars, cleanVars, cb, stopCall, main,
                   handler_threads, worker, dataVars, rq, pending, app>>

\* SICConnector.stop on connector record c: "self._redis.send_message(
\* self._request_reply_channel, SICStopRequest())" comes first and has no
\* guard, then the connector's connection is closed; published says whether
\* the publish went through
connector_stopped(c, published) ==
    [c EXCEPT !.pc = "stopped",
              !.late = @ \/ (c.pc = "stopped" /\ published)]

\* the application calls connector.stop()
connector_stop(k) ==
    /\ MainRuns
    /\ conn[k].pc = "ready"
    /\ conn' = [conn EXCEPT ![k] = connector_stopped(conn[k], TRUE)]
    /\ UNCHANGED <<busVars, mgrVars, evtVars, callVars, cleanVars, cb, stopCall, main,
                   handler_threads, worker, dataVars, rq, pending, app>>

\* the connectors an exit_handler frame still holds in connectors_to_stop
Held == UNION {app.frames[n].todo : n \in 1..Len(app.frames)}

\* SICConnector.__del__: "try: self.stop() except Exception"; the object
\* leaves the WeakSet _active_connectors. published: the publish on the
\* closed connection went through (the client reconnects) or raised
connector_del(k, published) ==
    /\ conn[k].pc \in {"ready", "stopped"}
    /\ k \notin Held
    /\ conn' = [conn EXCEPT ![k] = [connector_stopped(conn[k], published) EXCEPT
                                       !.pc = "deleted", !.registered = FALSE]]
    /\ UNCHANGED <<busVars, mgrVars, evtVars, callVars, cleanVars, cb, stopCall, main,
                   handler_threads, worker, dataVars, rq, pending, app>>

\* ---------------------------------------------------------- sic_application
\* register_connector: _active_connectors.add(connector)
register_connector(k) ==
    /\ MainRuns
    /\ conn[k].pc = "ready" /\ ~conn[k].registered
    /\ conn' = [conn EXCEPT ![k].registered = TRUE]
    /\ UNCHANGED <<busVars, mgrVars, evtVars, callVars, cleanVars, cb, stopCall, main,
                   handler_threads, worker, dataVars, rq, pending, app>>

\* register_exit_handler: atexit.register and signal.signal for SIGINT, SIGTERM
register_exit_handler ==
    /\ MainRuns
    /\ ~app.registered
    /\ app' = [app EXCEPT !.registered = TRUE]
    /\ UNCHANGED <<busVars, mgrVars, evtVars, callVars, cleanVars, cb, stopCall, main,
                   handler_threads, worker, dataVars, rq, pending, conn>>

\* the process is gone: the atexit handlers ran and nothing is on the stack
Terminated == app.atexit /\ app.frames = <<>>

\* get_shutdown_event, called by the code of the main thread or of another
\* thread of the application while the process lives: "if _shutdown_event is
\* None: _shutdown_event = threading.Event()", the module's event is returned
get_shutdown_event ==
    /\ ~Terminated
    /\ app' = [app EXCEPT !.shutdown_event = IF @ = None THEN "clear" ELSE @]
    /\ UNCHANGED <<busVars, mgrVars, evtVars, callVars, cleanVars, cb, stopCall, main,
                   handler_threads, worker, dataVars, rq, pending, conn>>

Frame(pc, todo) == [pc |-> pc, todo |-> todo]
Top == app.frames[Len(app.frames)]
SetTop(f) == [app.frames EXCEPT ![Len(app.frames)] = f]
Pop == SubSeq(app.frames, 1, Len(app.frames) - 1)

\* exit_handler is entered: a signal interrupts whatever the main thread runs
\* (an exit_handler frame included), atexit calls it when the interpreter
\* exits. "_app_logger = get_app_logger()" creates the logger and with it the
\* shared bus handle when there is none yet
exit_handler_invoke(source) ==
    /\ app.registered /\ ~Terminated
    /\ IF source = "atexit"
       THEN app.frames = <<>> /\ ~app.atexit
       ELSE app.invoked < MaxInvocations
    /\ app' = [app EXCEPT !.frames = Append(@, Frame("check", {})),
                          !.invoked = IF source = "atexit" THEN @ ELSE @ + 1,
                          !.atexit = @ \/ source = "atexit",
                          !.exiting = @ \/ source = "atexit",
                          !.logger = TRUE,
                          !.redis = IF app.logger THEN @ ELSE "open"]
    /\ UNCHANGED <<busVars, mgrVars, evtVars, callVars, cleanVars, cb, stopCall, main,
                   handler_threads, worker, dataVars, rq, pending, conn>>

AlreadyCleaningMutant(flag) == FALSE
\* exit_handler: "if _cleanup_in_progress: return"
AlreadyCleaning(flag) == flag

\* exit_handler: the test of _cleanup_in_progress
exit_handler_check ==
    /\ app.frames # <<>> /\ Top.pc = "check"
    /\ app' = [app EXCEPT !.frames = IF AlreadyCleaning(app.flag) THEN Pop
                                     ELSE SetTop(Frame("set", {}))]
    /\ UNCHANGED <<busVars, mgrVars, evtVars, callVars, cleanVars, cb, stopCall, main,
                   handler_threads, worker, dataVars, rq, pending, conn>>

\* exit_handler: "_cleanup_in_progress = True", "if _shutdown_event is not
\* None: _shutdown_event.set()" ... "connectors_to_stop =
\* list(_active_connectors)"
exit_handler_set ==
    /\ app.frames # <<>> /\ Top.pc = "set"
    /\ app' = [app EXCEPT !.flag = TRUE,
                          !.shutdown_event = IF @ # None THEN "set" ELSE @,
                          !.frames = SetTop(Frame("stopping",
                                        {k \in Connectors : conn[k].registered}))]
    /\ UNCHANGED <<busVars, mgrVars, evtVars, callVars, cleanVars, cb, stopCall, main,
                   handler_threads, worker, dataVars, rq, pending, conn>>

\* exit_handler: "try: connector.stop_component() except Exception", the next
\* connector of the list; the connector's stop publishes SICStopRequest and
\* closes its connection, or raises
exit_handler_stop_connector(k, raises) ==
    /\ app.frames # <<>> /\ Top.pc = "stopping"
    /\ k \in Top.todo
    /\ app' = [app EXCEPT !.frames = SetTop(Frame("stopping", Top.todo \ {k}))]
    /\ conn' = [conn EXCEPT ![k] = [(IF raises THEN conn[k]
                                     ELSE connector_stopped(conn[k], TRUE)) EXCEPT
                                       !.stops = @ + 1]]
    /\ UNCHANGED <<busVars, mgrVars, evtVars, callVars, cleanVars, cb, stopCall, main,
                   handler_threads, worker, dataVars, rq, pending>>

\* exit_handler: "if _app_redis is not None: _app_redis.close()"
exit_handler_close ==
    /\ app.frames # <<>> /\ Top.pc = "stopping" /\ Top.todo = {}
    /\ app' = [app EXCEPT !.closes = IF app.redis = "none" THEN @ ELSE @ + 1,
                          !.redis = IF app.redis = "none" THEN @ ELSE "closed",
                          !.frames = SetTop(Frame("clear", {}))]
    /\ UNCHANGED <<busVars, mgrVars, evtVars, callVars, cleanVars, cb, stopCall, main,
                   handler_threads, worker, dataVars, rq, pending, conn>>

\* exit_handler: "_app_redis = None"
exit_handler_clear ==
    /\ app.frames # <<>> /\ Top.pc = "clear"
    /\ app' = [app EXCEPT !.redis = "none", !.frames = SetTop(Frame("exit", {}))]
    /\ UNCHANGED <<busVars, mgrVars, evtVars, callVars, cleanVars, cb, stopCall, main,
                   handler_threads, worker, dataVars, rq, pending, conn>>

\* exit_handler: "sys.exit(0)" on the main thread; SystemExit unwinds every
\* frame on the stack, the interrupted exit_handler frames included
exit_handler_exit ==
    /\ app.frames # <<>> /\ Top.pc = "exit"
    /\ app' = [app EXCEPT !.frames = <<>>, !.exiting = TRUE]
    /\ UNCHANGED <<busVars, mgrVars, evtVars, callVars, cleanVars, cb, stopCall, main,
                   handler_threads, worker, dataVars, rq, pending, conn>>

\* ------------------------------------------------------------------- Next
Next ==
    \/ \E q \in ReqIds : manager_ping(q)
    \/ \E q \in ReqIds : manager_unknown_request(q)
    \/ \E q \in ReqIds : manager_stop_request(q)
    \/ manager_stop_ack
    \/ \E name \in UnknownNames, q \in ReqIds : manager_ignore_start(name, q)
    \/ \E chan \in Channels, q \in ReqIds : manager_ignore_stop(chan, q)
    \/ \E name \in component_classes, input \in Inputs, client \in Clients,
          q \in ReqIds : start_component(name, input, client, q)
    \/ start_component_reply
    \/ callback_return
    \/ \E chan \in Channels, q \in ReqIds : stop_component(chan, q)
    \/ stop_component_finish
    \/ stop_component_stop_raises
    \/ \E c \in Callers : stop_wait_stopped(c)
    \/ \E c \in Callers : stop_wait_calls(c)
    \/ \E c \in Callers : stop_cleanup_done(c)
    \/ \E interrupt \in BOOLEAN : serve_exit(interrupt)
    \/ atexit_stop
    \/ \E i \in Insts : manager_stop_next(i)
    \/ manager_stop_close
    \/ \E i \in Insts : component_start(i)
    \/ \E i \in Insts : component_register_request(i)
    \/ \E i \in Insts : component_register_message(i)
    \/ \E i \in Insts : component_set_ready(i)
    \/ \E i \in Insts : component_start_raises(i)
    \/ \E i \in Insts : produce_exit(i)
    \/ \E i \in Insts : listen_exit(i)
    \/ \E i \in Insts, q \in ReqIds : handle_request_ping(i, q)
    \/ \E i \in Insts, q \in ReqIds : handle_request_begin(i, q)
    \/ \E i \in Insts, reply_id \in RetIds : handle_request_end(i, reply_id)
    \/ \E i \in Insts : handle_request_raises(i)
    \/ \E i \in Insts, q \in ReqIds : handle_request_control(i, q)
    \/ \E i \in Insts, q \in ReqIds : handle_request_lost(i, q)
    \/ \E i \in Insts : handle_request_return(i)
    \/ \E t \in CallbackThreads : register_message_handler(t)
    \/ \E t \in CallbackThreads : unregister_callback(t)
    \/ \E m \in Messages : message_create(m)
    \/ message_serialize
    \/ message_deserialize
    \/ message_drop
    \/ \E q \in ChanReqs : channel_publish(q)
    \/ worker_invoke
    \/ worker_skip
    \/ \E q \in ChanReqs : worker_callback_returns(q)
    \/ \E q \in ChanReqs : worker_callback_raises(q)
    \/ \E q \in ChanReqs : worker_reply(q)
    \/ \E i \in Insts, kind \in MsgKinds : handle_message_begin(i, kind)
    \/ \E i \in Insts : handle_message_raises(i)
    \/ \E i \in Insts : handle_message_end(i)
    \/ \E i \in Insts, kind \in MsgKinds : handle_message_ignored(i, kind)
    \/ \E i \in Insts : handle_message_ignored_return(i)
    \/ \E c \in Requesters, q \in ReqIds : request_send(c, q)
    \/ \E q \in ReqIds, reply_id \in RetIds : handler_reply(q, reply_id)
    \/ \E c \in Requesters, q \in ReqIds : request_call(c, q)
    \/ \E c \in Requesters : request_subscribe(c)
    \/ \E c \in Requesters : request_publish(c)
    \/ \E c \in Requesters : request_wait(c)
    \/ \E c \in Requesters : request_return(c)
    \/ \E c \in Requesters : request_timeout(c)
    \/ \E c \in Requesters : request_done(c)
    \/ \E kind \in Kinds, src \in Srcs, ts \in Ts :
          /\ svc.received[<<kind, src>>] < MAX_MESSAGE_BUFFER_SIZE + MaxDrops
          /\ service_on_message(kind, src, ts)
    \/ \E twice_max_diff \in TwiceMaxDiffs : service_subclass(twice_max_diff)
    \/ \E produces \in BOOLEAN : service_listen(produces)
    \/ service_output_done
    \/ service_execute_raises
    \/ \E kind \in Kinds, src \in Srcs, ts \in Ts :
          /\ svc.received[<<kind, src>>] < MAX_MESSAGE_BUFFER_SIZE + MaxDrops
          /\ service_scan_mutated(kind, src, ts)
    \/ service_signal_stop
    \/ service_listen_exit
    \/ \E k \in Connectors, pong \in BOOLEAN : connector_ping(k, pong)
    \/ \E k \in Connectors, reply \in StartReplies : connector_start_reply(k, reply)
    \/ \E k \in Connectors, pong \in BOOLEAN : connector_ping2(k, pong)
    \/ \E k \in Connectors, ok \in BOOLEAN : connector_connect(k, ok)
    \/ \E k \in Connectors : connector_stop(k)
    \/ \E k \in Connectors, published \in BOOLEAN : connector_del(k, published)
    \/ \E k \in Connectors : register_connector(k)
    \/ register_exit_handler
    \/ get_shutdown_event
    \/ \E source \in Sources : exit_handler_invoke(source)
    \/ exit_handler_check
    \/ exit_handler_set
    \/ \E k \in Connectors, raises \in BOOLEAN : exit_handler_stop_connector(k, raises)
    \/ exit_handler_close
    \/ exit_handler_clear
    \/ exit_handler_exit

Spec == Init /\ [][Next]_vars


(***************************************************************************)
(* Scenarios.  Spec is the whole system.  Each specification below is the  *)
(* same program under a narrower environment (which requests clients send, *)
(* whether the process is interrupted): its next-state relation is a       *)
(* sub-relation of Next, so each of its behaviours is a behaviour of Spec. *)
(***************************************************************************)
OneInput == {"in1"}
OneClient == {"c1"}
OneRequest == {1}
NoReplyId == {NoId}
OneKind == {"A"}

\* Requests and replies: clients start components that serve requests, send
\* pings and requests with any id, handlers return messages with any id.
NextReply ==
    \/ \E q \in ReqIds : manager_ping(q)
    \/ \E name \in UnknownNames, q \in ReqIds : manager_ignore_start(name, q)
    \/ \E name \in Plain \cup Actuators, input \in OneInput, client \in OneClient,
          q \in ReqIds : start_component(name, input, client, q)
    \/ start_component_reply
    \/ callback_return
    \/ \E i \in Insts : component_start(i)
    \/ \E i \in Insts, q \in ReqIds : handle_request_ping(i, q)
    \/ \E i \in Insts, q \in ReqIds : handle_request_begin(i, q)
    \/ \E i \in Insts, reply_id \in RetIds : handle_request_end(i, reply_id)
    \/ \E i \in Insts : handle_request_raises(i)
    \/ \E i \in Insts : handle_request_return(i)

SpecReply == Init /\ [][NextReply]_vars

\* Handler calls against stop: clients start services, send them requests and
\* messages, and ask the manager to stop them.
NextCalls ==
    \/ \E name \in Services \cup Plain, input \in OneInput, client \in OneClient,
          q \in OneRequest : start_component(name, input, client, q)
    \/ start_component_reply
    \/ callback_return
    \/ \E chan \in Channels, q \in OneRequest : stop_component(chan, q)
    \/ stop_component_finish
    \/ \E c \in Callers : stop_wait_stopped(c)
    \/ \E c \in Callers : stop_wait_calls(c)
    \/ \E c \in Callers : stop_cleanup_done(c)
    \/ \E i \in Insts : component_start(i)
    \/ \E i \in Insts : listen_exit(i)
    \/ \E i \in Insts, q \in OneRequest : handle_request_begin(i, q)
    \/ \E i \in Insts, reply_id \in NoReplyId : handle_request_end(i, reply_id)
    \/ \E i \in Insts : handle_request_raises(i)
    \/ \E i \in Insts : handle_request_return(i)
    \/ \E i \in Insts, kind \in OneKind : handle_message_begin(i, kind)
    \/ \E i \in Insts : handle_message_raises(i)
    \/ \E i \in Insts : handle_message_end(i)

SpecCalls == Init /\ [][NextCalls]_vars

\* Stopping: components of every kind are started, stopped by StopComponent
\* and by the manager's own stop() (end of serve, then atexit).
NextStop ==
    \/ \E name \in component_classes, input \in OneInput, client \in OneClient,
          q \in OneRequest : start_component(name, input, client, q)
    \/ start_component_reply
    \/ callback_return
    \/ \E chan \in Channels, q \in OneRequest : stop_component(chan, q)
    \/ stop_component_finish
    \/ \E c \in Callers : stop_wait_stopped(c)
    \/ \E c \in Callers : stop_wait_calls(c)
    \/ \E c \in Callers : stop_cleanup_done(c)
    \/ \E interrupt \in {TRUE} : serve_exit(interrupt)
    \/ atexit_stop
    \/ \E i \in Insts : manager_stop_next(i)
    \/ manager_stop_close
    \/ \E i \in Insts : component_start(i)
    \/ \E i \in Insts : produce_exit(i)
    \/ \E i \in Insts : listen_exit(i)

SpecStop == Init /\ [][NextStop]_vars

\* The same, with every thread that can take a step eventually taking it: the
\* component threads, the two callers of SICComponent.stop, the manager's
\* callback thread and its main thread.
FairStop ==
    /\ SpecStop
    /\ \A i \in Insts :
          WF_vars(component_start(i) \/ produce_exit(i) \/ listen_exit(i))
    /\ \A c \in Callers :
          WF_vars(stop_wait_stopped(c) \/ stop_wait_calls(c) \/ stop_cleanup_done(c))
    /\ WF_vars(start_component_reply \/ callback_return \/ stop_component_finish)
    /\ WF_vars(atexit_stop \/ manager_stop_close \/ \E i \in Insts : manager_stop_next(i))

\* Starting and stopping through the manager: any client, any input channel.
NextMgr ==
    \/ \E chan \in Channels, q \in OneRequest : manager_ignore_stop(chan, q)
    \/ \E name \in component_classes, input \in Inputs, client \in Clients,
          q \in OneRequest : start_component(name, input, client, q)
    \/ start_component_reply
    \/ callback_return
    \/ \E chan \in Channels, q \in OneRequest : stop_component(chan, q)
    \/ stop_component_finish
    \/ \E c \in Callers : stop_wait_stopped(c)
    \/ \E c \in Callers : stop_wait_calls(c)
    \/ \E c \in Callers : stop_cleanup_done(c)
    \/ \E i \in Insts : component_start(i)
    \/ \E i \in Insts : component_start_raises(i)
    \/ \E i \in Insts : produce_exit(i)
    \/ \E i \in Insts : listen_exit(i)

SpecMgr == Init /\ [][NextMgr]_vars

\* Blocking requests: client threads send requests on one channel, a handler
\* replies with whatever message its callback returned, waits may time out.
NextRequest ==
    \/ \E c \in Requesters, q \in ReqIds : request_send(c, q)
    \/ \E q \in ReqIds, reply_id \in RetIds : handler_reply(q, reply_id)
    \/ \E c \in Requesters : request_return(c)
    \/ \E c \in Requesters : request_timeout(c)
    \/ \E c \in Requesters : request_done(c)

SpecRequest == Init /\ [][NextRequest]_vars

\* Component failures: constructors that raise (a held reservation), start()
\* that raises or never sets Ready, stop() that raises, requests of a class the
\* manager has no branch for, and pings in between.
NextFail ==
    \/ \E q \in OneRequest : manager_ping(q)
    \/ \E q \in OneRequest : manager_unknown_request(q)
    \/ \E name \in Sensors \cup Plain, input \in OneInput, client \in OneClient,
          q \in OneRequest : start_component(name, input, client, q)
    \/ start_component_reply
    \/ callback_return
    \/ \E chan \in Channels, q \in OneRequest : stop_component(chan, q)
    \/ stop_component_finish
    \/ stop_component_stop_raises
    \/ \E c \in Callers : stop_wait_stopped(c)
    \/ \E i \in Insts : component_start(i)
    \/ \E i \in Insts : component_start_raises(i)
    \/ \E i \in Insts : produce_exit(i)

SpecFail == Init /\ [][NextFail]_vars

\* Manager shutdown: a StopManager request or Ctrl-C while components run; the
\* main thread leaves serve() and runs stop(), the callback thread replies.
NextShutdown ==
    \/ \E q \in OneRequest : manager_ping(q)
    \/ \E q \in OneRequest : manager_stop_request(q)
    \/ manager_stop_ack
    \/ \E name \in Plain, input \in OneInput, client \in OneClient,
          q \in OneRequest : start_component(name, input, client, q)
    \/ start_component_reply
    \/ callback_return
    \/ \E c \in {"main"} : stop_wait_stopped(c)
    \/ \E interrupt \in BOOLEAN : serve_exit(interrupt)
    \/ atexit_stop
    \/ \E i \in Insts : manager_stop_next(i)
    \/ manager_stop_close
    \/ \E i \in Insts : component_start(i)

SpecShutdown == Init /\ [][NextShutdown]_vars

\* Application shutdown: connectors whose component answers the ping are
\* registered; signals and the interpreter's exit invoke exit_handler, also
\* while an exit_handler frame is running.
NextApp ==
    \/ \E k \in Connectors, pong \in {TRUE} : connector_ping(k, pong)
    \/ \E k \in Connectors, ok \in {TRUE} : connector_connect(k, ok)
    \/ \E k \in Connectors : register_connector(k)
    \/ register_exit_handler
    \/ get_shutdown_event
    \/ \E source \in Sources : exit_handler_invoke(source)
    \/ exit_handler_check
    \/ exit_handler_set
    \/ \E k \in Connectors, raises \in BOOLEAN : exit_handler_stop_connector(k, raises)
    \/ exit_handler_close
    \/ exit_handler_clear
    \/ exit_handler_exit

SpecApp == Init /\ [][NextApp]_vars

\* Connectors: construction with every outcome of the ping and of the
\* StartComponent request, stop() by the application, by __del__ and by the
\* exit handler.
NextConnect ==
    \/ \E k \in Connectors, pong \in BOOLEAN : connector_ping(k, pong)
    \/ \E k \in Connectors, reply \in StartReplies : connector_start_reply(k, reply)
    \/ \E k \in Connectors, pong \in BOOLEAN : connector_ping2(k, pong)
    \/ \E k \in Connectors, ok \in BOOLEAN : connector_connect(k, ok)
    \/ \E k \in Connectors : connector_stop(k)
    \/ \E k \in Connectors, published \in BOOLEAN : connector_del(k, published)
    \/ \E k \in Connectors : register_connector(k)
    \/ register_exit_handler
    \/ \E source \in {"SIGINT"} : exit_handler_invoke(source)
    \/ exit_handler_check
    \/ exit_handler_set
    \/ \E k \in Connectors, raises \in {FALSE} : exit_handler_stop_connector(k, raises)
    \/ exit_handler_close
    \/ exit_handler_clear
    \/ exit_handler_exit

SpecConnect == Init /\ [][NextConnect]_vars

OneSrc == {"s1"}
SetTs == {1, 2}

\* A service aligns its inputs: messages of both declared kinds arrive from
\* one component with any timestamp, the unset one included, the listen
\* thread aligns, consumes and publishes.
NextService ==
    \/ \E kind \in Kinds, src \in OneSrc, ts \in Ts :
          /\ SumReceived(Keys) < MaxMsgs
          /\ service_on_message(kind, src, ts)
    \/ \E produces \in BOOLEAN : service_listen(produces)
    \/ service_output_done

SpecService == Init /\ [][NextService]_vars

\* The same for service classes with any alignment threshold.
NextAlign ==
    \/ \E twice_max_diff \in TwiceMaxDiffs : service_subclass(twice_max_diff)
    \/ \E kind \in Kinds, src \in OneSrc, ts \in Ts :
          /\ SumReceived(Keys) < MaxMsgs
          /\ service_on_message(kind, src, ts)
    \/ \E produces \in BOOLEAN : service_listen(produces)
    \/ service_output_done

SpecAlign == Init /\ [][NextAlign]_vars

\* One buffer fills: messages of one declared kind arrive from one component
\* and nothing is consumed (the other declared kind never arrives).
NextBuffer ==
    \/ \E kind \in {"A"}, src \in OneSrc, ts \in SetTs :
          /\ svc.received[<<kind, src>>] < MAX_MESSAGE_BUFFER_SIZE + MaxDrops
          /\ service_on_message(kind, src, ts)

SpecBuffer == Init /\ [][NextBuffer]_vars

\* Input validation: a sensor and a component with declared inputs run,
\* messages of declared, derived and undeclared classes arrive on their input
\* channels.
NextInput ==
    \/ \E name \in Sensors \cup Plain, input \in OneInput, client \in OneClient,
          q \in OneRequest : start_component(name, input, client, q)
    \/ start_component_reply
    \/ callback_return
    \/ \E i \in Insts : component_start(i)
    \/ \E i \in Insts, kind \in MsgKinds : handle_message_begin(i, kind)
    \/ \E i \in Insts, kind \in MsgKinds : handle_message_ignored(i, kind)
    \/ \E i \in Insts : handle_message_ignored_return(i)
    \/ \E i \in Insts : handle_message_raises(i)
    \/ \E i \in Insts : handle_message_end(i)

SpecInput == Init /\ [][NextInput]_vars

\* Request dispatch: components are started and receive pings, stop requests
\* and requests of their own on the request/reply channel; on_request returns.
NextDispatch ==
    \/ \E name \in Services \cup Plain, input \in OneInput, client \in OneClient,
          q \in OneRequest : start_component(name, input, client, q)
    \/ start_component_reply
    \/ callback_return
    \/ \E i \in Insts : component_start(i)
    \/ \E i \in Insts, q \in ReqIds : handle_request_ping(i, q)
    \/ \E i \in Insts, q \in ReqIds : handle_request_begin(i, q)
    \/ \E i \in Insts, reply_id \in NoReplyId : handle_request_end(i, reply_id)
    \/ \E i \in Insts, q \in ReqIds : handle_request_control(i, q)
    \/ \E i \in Insts, q \in ReqIds : handle_request_lost(i, q)
    \/ \E i \in Insts : handle_request_return(i)

SpecDispatch == Init /\ [][NextDispatch]_vars

\* Callbacks of one SICRedis object: handlers are registered and unregistered,
\* each up to MaxUnregister times.
NextCallbacks ==
    \/ \E t \in CallbackThreads : register_message_handler(t)
    \/ \E t \in CallbackThreads : unregister_callback(t)

SpecCallbacks == Init /\ [][NextCallbacks]_vars

\* start() statement by statement: the manager starts components and waits
\* for Ready, requests and input messages are published to them.
NextReady ==
    \/ \E name \in component_classes, input \in OneInput, client \in OneClient,
          q \in OneRequest : start_component(name, input, client, q)
    \/ start_component_reply
    \/ callback_return
    \/ \E i \in Insts : component_register_request(i)
    \/ \E i \in Insts : component_register_message(i)
    \/ \E i \in Insts : component_set_ready(i)
    \/ \E i \in Insts, q \in OneRequest : handle_request_begin(i, q)
    \/ \E i \in Insts, reply_id \in NoReplyId : handle_request_end(i, reply_id)
    \/ \E i \in Insts : handle_request_return(i)
    \/ \E i \in Insts, kind \in OneKind : handle_message_begin(i, kind)
    \/ \E i \in Insts : handle_message_end(i)

SpecReady == Init /\ [][NextReady]_vars

\* One request channel: clients publish requests, the subscription's worker
\* calls the handler and publishes its replies; a handler may raise.
NextHandler ==
    \/ \E q \in ChanReqs : channel_publish(q)
    \/ worker_invoke
    \/ worker_skip
    \/ \E q \in ChanReqs : worker_callback_returns(q)
    \/ \E q \in ChanReqs : worker_callback_raises(q)
    \/ \E q \in ChanReqs : worker_reply(q)

SpecHandler == Init /\ [][NextHandler]_vars

\* The statements of request(): client threads subscribe, publish and wait,
\* the handler replies to a request at any moment after it was published,
\* with a message that takes the request's id; waits may time out.
NextRace ==
    \/ \E c \in Requesters, q \in ReqIds : request_call(c, q)
    \/ \E c \in Requesters : request_subscribe(c)
    \/ \E c \in Requesters : request_publish(c)
    \/ \E c \in Requesters : request_wait(c)
    \/ \E q \in ReqIds, reply_id \in NoReplyId : handler_reply(q, reply_id)
    \/ \E c \in Requesters : request_return(c)
    \/ \E c \in Requesters : request_timeout(c)
    \/ \E c \in Requesters : request_done(c)

SpecRace == Init /\ [][NextRace]_vars

\* Messages on the wire: every message object of the registered classes is
\* serialized and deserialized.
NextWire ==
    \/ \E m \in Messages : message_create(m)
    \/ message_serialize
    \/ message_deserialize
    \/ message_drop

SpecWire == Init /\ [][NextWire]_vars

\* stop() against requests in flight: services and base components are
\* started, serve requests and are stopped by StopComponent.
NextStopCalls ==
    \/ \E name \in Services \cup Plain, input \in OneInput, client \in OneClient,
          q \in OneRequest : start_component(name, input, client, q)
    \/ start_component_reply
    \/ callback_return
    \/ \E chan \in Channels, q \in OneRequest : stop_component(chan, q)
    \/ stop_component_finish
    \/ \E c \in Callers : stop_wait_stopped(c)
    \/ \E c \in Callers : stop_wait_calls(c)
    \/ \E c \in Callers : stop_cleanup_done(c)
    \/ \E i \in Insts : component_start(i)
    \/ \E i \in Insts : listen_exit(i)
    \/ \E i \in Insts, q \in OneRequest : handle_request_begin(i, q)
    \/ \E i \in Insts, reply_id \in NoReplyId : handle_request_end(i, reply_id)
    \/ \E i \in Insts : handle_request_return(i)

SpecStopCalls == Init /\ [][NextStopCalls]_vars

\* The same, where a thread inside SICComponent.stop() eventually takes its
\* next step. Nothing is assumed of the worker loops and of the handler
\* threads: a worker may never set _stopped, on_request may never return.
FairStopCalls ==
    /\ SpecStopCalls
    /\ \A c \in Callers :
          WF_vars(stop_wait_stopped(c) \/ stop_wait_calls(c) \/ stop_cleanup_done(c))

\* Reservations: clients start sensors, actuators and services and stop them.
NextReserve ==
    \/ \E name \in Sensors \cup Actuators \cup Services, input \in Inputs,
          client \in Clients, q \in OneRequest :
             start_component(name, input, client, q)
    \/ start_component_reply
    \/ callback_return
    \/ \E chan \in Channels, q \in OneRequest : stop_component(chan, q)
    \/ stop_component_finish
    \/ \E c \in Callers : stop_wait_stopped(c)
    \/ \E i \in Insts : component_start(i)

SpecReserve == Init /\ [][NextReserve]_vars


(***************************************************************************)
(* Properties                                                              *)
(***************************************************************************)
\* the manager published a reply of class type to a request of class request
MgrReplied(request, type) ==
    cb.pc = "replied" /\ cb.reply.req = request /\ cb.reply.type = type

\* C1: every reply published for a request q carries q's request id or -1,
\* whatever message the handler returned (manager and component handlers).
C1_ReplyCarriesRequestId ==
    /\ cb.pc = "replied" => cb.reply.r \in {cb.reply.q, IgnoreId}
    /\ \A i \in Insts : req[i].pc = "replied" => req[i].r \in {req[i].q, IgnoreId}

\* C2: _cleanup never overlaps an on_message or on_request execution of the
\* same component, and it starts only when the active-call counter is zero.
C2_CleanupExcludesCalls ==
    /\ \A i \in Insts :
          cleaning[i] > 0 => /\ active_calls[i] = 0
                             /\ req[i].pc # "in_call"
                             /\ msgPc[i] # "in_call"
    /\ \A c \in Callers : stopCall[c].pc = "cleanup" => stopCall[c].callsAtCleanup = 0

\* C3: stop() runs _cleanup if and only if the wait for _stopped returned set
\* before the stop timeout expired: a stop() that goes on to the cleanup was
\* confirmed, and a stop() that returned ran the cleanup exactly when it was.
C3_CleanupIffStoppedInTime ==
    \A c \in Callers :
       /\ stopCall[c].pc \in {"wait_calls", "cleanup"} => stopCall[c].confirmed
       /\ stopCall[c].pc = "returned" => (stopCall[c].cleaned <=> stopCall[c].confirmed)

\* C3 witness: one stop() returned after its cleanup while another returned
\* having skipped it.
C3_Witness ==
    /\ stopCall["cb"].pc = "returned"
    /\ stopCall["main"].pc = "returned"
    /\ \E c, d \in Callers :
          /\ stopCall[c].confirmed /\ stopCall[c].cleaned
          /\ ~stopCall[d].confirmed /\ ~stopCall[d].cleaned

\* C4: every Ready component on which stop() is called eventually confirms
\* _stopped and then runs _cleanup, whatever its kind.
C4_StopLeadsToCleanup ==
    \A i \in Insts :
       (ready_event[i] /\ signal_to_stop[i]) ~> (stopped[i] /\ cleanups[i] > 0)

\* C5: at most one constructed and not stopped instance exists per component
\* channel.
C5_OneLiveInstancePerChannel ==
    \A i, j \in 1..constructed :
       (i # j /\ ChanOf(i) = ChanOf(j)) => (signal_to_stop[i] \/ signal_to_stop[j])

\* C6: the manager replies ComponentStarted only if the component's Ready was
\* set within the startup timeout.
C6_StartedOnlyIfReady ==
    MgrReplied("StartComponent", "ComponentStarted") => cb.reply.readyInTime

\* C7: whenever the manager replies Success to StopComponent(id), the key
\* data_stream:<id> is absent and the component's reservation is released.
C7_SuccessReleasesKeys ==
    MgrReplied("StopComponent", "Success") => (cb.reply.dsAbsent /\ cb.reply.resAbsent)

\* C8: at most one sensor or actuator instance holds the reservation of a
\* component; a StartComponent that finds the reservation held leaves it with
\* its holder, constructs no instance and is replied NotStarted.
C8_ReservationExclusive ==
    /\ \A i, j \in 1..constructed :
          (Reserving(comp[i].name) /\ comp[i].name = comp[j].name) => i = j
    /\ \A i \in 1..constructed :
          Reserving(comp[i].name) => reservation[comp[i].name] = comp[i].client
    /\ cb.pc = "start_wait" /\ Reserving(comp[cb.inst].name) => cb.holderBefore = None
    /\ (cb.pc = "replied" /\ cb.reply.req = "StartComponent" /\ cb.reply.heldBefore)
          => /\ cb.reply.type = "NotStarted"
             /\ cb.reply.newInst = 0
             /\ cb.reply.holder = cb.reply.holderBefore

\* C8 witness: a sensor holds its reservation for one client, and another
\* client's StartComponent for it was replied NotStarted.
C8_Witness ==
    /\ MgrReplied("StartComponent", "NotStarted")
    /\ cb.reply.heldBefore
    /\ \E i \in 1..constructed :
          /\ comp[i].name \in Sensors
          /\ ChanOf(i) # cb.reply.chan
          /\ reservation[comp[i].name] = comp[i].client
          /\ cb.reply.holder = comp[i].client

\* C9: a second identical StartComponent for a component that is Ready is
\* replied ComponentStarted for the same instance and constructs nothing.
C9_SecondStartIdempotent ==
    (cb.pc = "replied" /\ cb.reply.req = "StartComponent" /\ cb.reply.dup)
       => /\ cb.reply.type = "ComponentStarted"
          /\ cb.reply.newInst = 0
          /\ cb.reply.inst = cb.reply.prevInst

\* C10: stop() on a component that an earlier stop() already stopped and
\* cleaned up does not run _cleanup again.
C10_SecondStopIsNoop ==
    \A c \in Callers :
       stopCall[c].wasStopped => (stopCall[c].pc # "cleanup" /\ ~stopCall[c].cleaned)


\* C11: when a blocking request() ends, by a reply or by timeout, the reply
\* subscription it installed is gone from _running_callbacks: the adapter has
\* as many live subscriptions as before the call.
C11_RequestLeavesNoSubscription ==
    \A c \in Requesters :
       rq[c].pc \in {"returned", "timedout"} => rq[c].subs = rq[c].before

\* C12: a blocking request is never completed by an ignore reply (request id
\* -1): what request() returns is never that reply, and a call that received
\* nothing else ends by its timeout.
C12_IgnoreReplyNeverCompletes ==
    \A c \in Requesters :
       /\ rq[c].got # NoMsg => /\ rq[c].got.r # IgnoreId
                               /\ rq[c].got # ReplyMsg(rq[c].q, IgnoreId)
       /\ rq[c].pc = "returned" => rq[c].got # NoMsg
       /\ rq[c].pc = "timedout" => rq[c].got = NoMsg

\* C12 witness: a request was answered with the ignore reply, its await_reply
\* was called with it, and the request ended by timeout.
C12_Witness ==
    \E c \in Requesters :
       /\ rq[c].pc = "timedout"
       /\ rq[c].sawIgnore
       /\ rq[c].q \notin pending.reqs

\* C13: with several requests outstanding on one channel, each requester
\* returns the reply to its own request, carrying its own request id, never
\* the reply to another request and never a request message.
C13_RequesterGetsOwnReply ==
    \A c \in Requesters :
       rq[c].got # NoMsg => /\ rq[c].got.kind = "reply"
                            /\ rq[c].got.r = rq[c].q
                            /\ rq[c].got.q = rq[c].q


\* C14: an exception raised by a handler does not end the subscription's worker:
\* while the subscription is registered and no shutdown was requested, the
\* worker is there to take the next message.
C14_HandlerExceptionKeepsWorker ==
    \A i \in Insts :
       (handler_threads[i] = "live" /\ ~closed)
          => (req[i].pc # "dead" /\ msgPc[i] # "dead")


C16_StopLeavesNoDataStream ==
    main.pc \in {"served", "exited"} => \A chan \in Channels : data_stream[chan] = None


\* C17: the Success acknowledgement of a StopManager request is published
\* before the manager closes its bus connection.
C17_StopAckBeforeClose ==
    MgrReplied("StopRequest", "Success") => ~cb.reply.afterClose


\* C18: however often and however interleaved exit_handler is invoked, each
\* registered connector is stopped by it at most once and the shared bus
\* handle is closed at most once.
C18_ShutdownRunsOnce ==
    /\ app.closes <= 1
    /\ \A k \in Connectors : conn[k].stops <= 1

\* C18 witness: after signals invoked exit_handler and the shutdown ran (the
\* handle closed once, a registered connector stopped once), atexit invokes
\* exit_handler again and it is about to test _cleanup_in_progress.
C18_Witness ==
    /\ app.flag /\ app.atexit
    /\ app.invoked = MaxInvocations
    /\ app.frames # <<>> /\ Top.pc = "check"
    /\ app.closes = 1
    /\ \E k \in Connectors : conn[k].registered /\ conn[k].stops = 1

\* C19: a connector whose StartComponent request was answered NotStarted ends
\* its construction with the ComponentNotStarted error, one whose request
\* timed out with the device-unreachable error; neither becomes usable.
C19_ConstructionFailsWithCause ==
    \A k \in Connectors :
       /\ (conn[k].reply = "NotStarted" /\ conn[k].pc # "ping2")
             => (conn[k].pc = "failed" /\ conn[k].error = "ComponentNotStarted")
       /\ (conn[k].reply = "Timeout")
             => (conn[k].pc = "failed" /\ conn[k].error = "DeviceUnreachable")

\* C20: a connector whose stop() has returned publishes no further message on
\* its request/reply channel.
C20_NoPublishAfterStop ==
    \A k \in Connectors : ~conn[k].late


\* C21: for a component the manager started, the request/reply channel and
\* the output channel a connector of the requesting client derives for the
\* component's class are the channels the manager gave the component.
C21_PeersDeriveSameChannels ==
    MgrReplied("StartComponent", "ComponentStarted") =>
       /\ cb.reply.rr = get_request_reply_channel(comp[cb.reply.inst].name)
       /\ cb.reply.chan = connector_output_channel(comp[cb.reply.inst].name,
                                                    comp[cb.reply.inst].client)


\* C22: a message a service publishes on its output channel has a non-zero
\* timestamp, the timestamp of one of the inputs consumed for it.
C22_OutputTimestampFromInput ==
    svc.out # NoOut => (svc.out.ts # 0 /\ svc.out.ts \in svc.out.consumed)

C24_OnMessageOnlyDeclaredKinds ==
    \A i \in Insts :
       msgPc[i] = "in_call" =>
          \E cls \in get_inputs(comp[i].name) : is_sic_instance(msgKind[i], cls)


\* C25: a request on a component's request/reply channel reaches on_request
\* iff it is no control request: a thread inside on_request holds a request
\* that is no control request, a ping is answered, and a request that is no
\* control request, published while the subscription is registered and the
\* connection open, is inside on_request or was served by it.
C25_DispatchIffNotControl ==
    \A i \in Insts :
       /\ req[i].pc = "in_call" => req[i].kind \notin SICControlRequest
       /\ req[i].kind = "SICPingRequest" => req[i].pc = "replied"
       /\ (req[i].kind = "SICRequest" /\ handler_threads[i] = "live" /\ ~closed)
             => req[i].pc \in {"in_call", "replied"}


\* the position of a stop() call in SICComponent.stop
StopRank(pc) ==
    CASE pc = "wait_stopped" -> 1
      [] pc = "wait_calls" -> 2
      [] pc = "cleanup" -> 3
      [] OTHER -> 4

\* C26: SICComponent.stop() always terminates: a call that has begun returns,
\* and every step of it moves forward through the wait for _stopped, the wait
\* for the calls in flight and _cleanup, so it waits at most twice, whether
\* or not the worker confirms and the calls in flight drain.
C26_StopTerminates ==
    /\ \A c \in Callers :
          (stopCall[c].pc \in {"wait_stopped", "wait_calls", "cleanup"})
             ~> (stopCall[c].pc = "returned")
    /\ [][\A c \in Callers :
             (stopCall[c].pc \in {"wait_stopped", "wait_calls", "cleanup"}
              /\ stopCall'[c] # stopCall[c])
                => StopRank(stopCall'[c].pc) > StopRank(stopCall[c].pc)]_vars

\* a stop() that returned after both waits while a request was inside
\* on_request, and is still there
C26_Witness ==
    \E i \in Insts :
       /\ stopCall["cb"].pc = "returned" /\ stopCall["cb"].inst = i
       /\ stopCall["cb"].cleaned /\ stopCall["cb"].callsAtCleanup > 0
       /\ active_calls[i] > 0 /\ ~no_active_calls[i]


\* C27: the second unregister_callback call on a CallbackThread raises no
\* error and leaves the subscribed pubsubs of the object as they were.
C27_SecondUnregisterHarmless ==
    callbacks.last.n >= 2
       => (callbacks.last.raised = None /\ callbacks.last.after = callbacks.last.before)


\* Python's == on two timestamp values: None equals None only, a tuple equals
\* the same tuple only, ints and floats are compared as numbers
SameTimestamp(a, b) ==
    IF a.type \in {"None", "tuple"} \/ b.type \in {"None", "tuple"}
    THEN a = b
    ELSE a.sec = b.sec /\ a.frac = b.frac

\* C28: deserialize(serialize(m)) has the class of m and its timestamp,
\* previous component name and request id, for every message of a registered
\* class and every value of the three, None included.
C28_RoundTripKeepsMetadata ==
    wire.stage = "deserialized"
       => /\ wire.out.kind = wire.m.kind
          /\ SameTimestamp(wire.out.timestamp, wire.m.timestamp)
          /\ wire.out.previous_component_name = wire.m.previous_component_name
          /\ wire.out.request_id = wire.m.request_id


\* C29: a blocking request() installs its reply subscription before it
\* publishes the request: at the publish the subscription is live, and a reply
\* to the request published at any moment after, while request() has not
\* ended, is in the requester's queue.
C29_SubscribedBeforePublish ==
    \A c \in Requesters :
       /\ (rq[c].pc = "calling" /\ rq[c].q \in pending.reqs) => rq[c].live
       /\ (rq[c].pc \in {"calling", "waiting"}
           /\ \E m \in pending.replies : AwaitAccepts(rq[c].q, m))
             => (rq[c].got # NoMsg /\ rq[c].got \in pending.replies)

\* a reply that was published and received before the publish call of the
\* request returned
C29_Witness ==
    \E c \in Requesters :
       /\ rq[c].pc = "calling" /\ rq[c].step = 3
       /\ rq[c].got = ReplyMsg(rq[c].q, NoId)
       /\ rq[c].got \in pending.replies


\* the requests published before q on the channel
PublishedBefore(q) ==
    {reqchan.order[j] : j \in {k \in 1..Len(reqchan.order) :
                                 \E l \in 1..Len(reqchan.order) :
                                    k < l /\ reqchan.order[l] = q}}

\* C30: the handler invocations of one subscription never overlap: at most
\* one is in progress, a request is inside the handler only when no request
\* published before it is queued, and the replies published so far are to the
\* first requests published, in the order of the requests.
C30_HandlerInvocationsSerial ==
    /\ Cardinality(reqchan.inv) <= 1
    /\ \A i \in reqchan.inv :
          \A q \in PublishedBefore(i.q) :
             /\ \A j \in 1..Len(reqchan.queue) :
                   reqchan.queue[j] # [kind |-> "request", q |-> q]
             /\ reqchan.worker = "live" => q \in Elems(reqchan.replies)
    /\ Len(reqchan.replies) <= Len(reqchan.order)
    /\ reqchan.replies = SubSeq(reqchan.order, 1, Len(reqchan.replies))

\* the handler is invoked for the second request after the reply to the first
\* was published, while a third request waits in the queue
C30_Witness ==
    /\ Len(reqchan.order) = 3
    /\ reqchan.replies = <<reqchan.order[1]>>
    /\ reqchan.inv = {[q |-> reqchan.order[2], stage |-> "callback"]}
    /\ [kind |-> "request", q |-> reqchan.order[3]] \in Elems(reqchan.queue)


\* C31: a component's _ready_event is set only after its request handler and
\* its message handler were registered: in every state where the event is set
\* both subscriptions exist (or were removed again by a stop), so a request
\* or a message published then has a handler thread to take it.
C31_ReadyAfterHandlers ==
    \A i \in Insts :
       ready_event[i]
          => /\ handler_threads[i] \in {"live", "stopped"}
             /\ (handler_threads[i] = "live"
                   => req[i].pc \in {"idle", "in_call", "replied"}
                      /\ msgPc[i] \in {"idle", "in_call"})

\* a component that is Ready and whose handlers are inside on_request and
\* on_message
C31_Witness ==
    \E i \in Insts :
       /\ ready_event[i] /\ handler_threads[i] = "live"
       /\ req[i].pc = "in_call" /\ msgPc[i] = "in_call"


\* the greatest element of a set of numbers
Max(S) == CHOOSE x \in S : \A y \in S : y <= x

\* the timestamps of the messages a buffer holds
TimestampsOf(buf) == {buf[j].ts : j \in 1..Len(buf)}

\* the minimum, over the buffers, of the greatest timestamp in the buffer
MinOfNewest == Min({Max(TimestampsOf(svc.buffers[key].buf)) : key \in svc.created})

\* C32: the reference timestamp of an alignment, which the service puts on
\* its output, is the minimum over the buffers of the greatest timestamp of
\* the messages in the buffer, in whatever order the messages arrived.
C32_ReferenceIsMinOfNewest ==
    [][(svc.out = NoOut /\ svc'.out # NoOut) => svc'.out.ts = MinOfNewest]_vars


\* the timestamps of the messages of a buffer within the threshold of ref
Eligible(buf, ref) ==
    {buf[j].ts : j \in {k \in 1..Len(buf) : 2 * Abs(buf[k].ts - ref) <= svc.twice_max_diff}}

\* a step of the listen thread that consumed an aligned tuple
Consumes ==
    \E key \in Keys : Len(svc'.buffers[key].buf) < Len(svc.buffers[key].buf)

\* C33: from each buffer the aligner takes the message with the greatest
\* timestamp among the messages of the buffer within MAX_TIMESTAMP_DIFF_SECONDS
\* of the reference timestamp, the threshold itself included.
C33_SelectsNewestEligible ==
    [][Consumes =>
          \A key \in svc.created :
             LET buf == svc.buffers[key].buf
                 ref == get_reference_timestamp
             IN buf[find_aligned_message(buf, ref)].ts = Max(Eligible(buf, ref))]_vars


\* a round of the listen thread: it cleared _new_data_event
ListenRound == svc.new_data /\ ~svc'.new_data

\* C34: an alignment attempt that cannot be completed (a buffer missing or
\* empty, or a buffer with no message within the threshold) removes no
\* message from any buffer and does not call execute.
C34_FailedAttemptRemovesNothing ==
    [][(ListenRound /\ ~CanAlign)
          => /\ svc'.buffers = svc.buffers
             /\ svc'.executed = svc.executed
             /\ svc'.out = NoOut]_vars

\* both buffers hold a message, no round is due, execute was never called:
\* the last attempt found no message within the threshold in some buffer
C34_Witness ==
    /\ validate_buffers_ready
    /\ \A key \in svc.created : svc.buffers[key].buf # <<>>
    /\ ~CanAlign
    /\ ~svc.new_data /\ svc.executed = 0


\* A service with two declared inputs whose messages come from any of the
\* components: _get_buffer_key keeps one buffer per (kind, component).
NextSources ==
    \/ \E kind \in Kinds, src \in Srcs, ts \in Ts :
          /\ SumReceived(Keys) < MaxMsgs
          /\ service_on_message(kind, src, ts)
    \/ \E produces \in BOOLEAN : service_listen(produces)
    \/ service_output_done

SpecSources == Init /\ [][NextSources]_vars

\* SICService._build_message_dict: the kinds of the messages handed to
\* execute, one message of each buffer
KindsOfTuple == {key[1] : key \in svc.created}

\* C35: execute is called only with a tuple of exactly one message of each
\* declared input kind; messages of one kind from different components never
\* leave a declared kind missing from the tuple.
C35_TupleHasEveryDeclaredKind ==
    [][(svc'.executed = svc.executed + 1)
          => /\ KindsOfTuple = Kinds
             /\ Cardinality(svc.created) = Cardinality(Kinds)]_vars


\* the replies to request q published so far
RepliesTo(q) == {j \in 1..Len(reqchan.replies) : reqchan.replies[j] = q}

\* the worker has received request q and is done with it
Handled(q) ==
    /\ q \in Elems(reqchan.order)
    /\ [kind |-> "request", q |-> q] \notin Elems(reqchan.queue)
    /\ \A i \in reqchan.inv : i.q # q

\* C36: a request handler publishes exactly one reply for each request it
\* received and none for a message that is no request: a reply, which travels
\* on the same channel, is never handled as a request.
C36_OneReplyPerRequest ==
    /\ \A q \in ChanReqs :
          /\ Cardinality(RepliesTo(q)) <= 1
          /\ Handled(q) => Cardinality(RepliesTo(q)) = 1
    /\ Len(reqchan.replies) <= Len(reqchan.order)


\* Handler calls of started components: requests of every kind and messages
\* of every class arrive, on_request and on_message return or raise.
NextCounter ==
    \/ \E name \in Plain, input \in OneInput, client \in OneClient,
          q \in OneRequest : start_component(name, input, client, q)
    \/ start_component_reply
    \/ callback_return
    \/ \E i \in Insts : component_start(i)
    \/ \E i \in Insts, q \in OneRequest : handle_request_ping(i, q)
    \/ \E i \in Insts, q \in OneRequest : handle_request_begin(i, q)
    \/ \E i \in Insts, reply_id \in NoReplyId : handle_request_end(i, reply_id)
    \/ \E i \in Insts : handle_request_raises(i)
    \/ \E i \in Insts, q \in OneRequest : handle_request_control(i, q)
    \/ \E i \in Insts : handle_request_return(i)
    \/ \E i \in Insts, kind \in MsgKinds : handle_message_begin(i, kind)
    \/ \E i \in Insts, kind \in MsgKinds : handle_message_ignored(i, kind)
    \/ \E i \in Insts : handle_message_raises(i)
    \/ \E i \in Insts : handle_message_end(i)
    \/ \E i \in Insts : handle_message_ignored_return(i)

SpecCounter == Init /\ [][NextCounter]_vars

\* the on_request and on_message invocations of component i in progress:
\* the calls _handle_request and _handle_message made and that did not yet
\* return or raise
CallsInProgress(i) ==
    (IF req[i].pc = "in_call" THEN 1 ELSE 0) + (IF msgPc[i] = "in_call" THEN 1 ELSE 0)

\* C37: in every reachable state the active-call counter of a component is
\* non-negative and equals the number of its on_message and on_request
\* invocations in progress, also after invocations that raised, and
\* _no_active_calls is set exactly when the counter is zero.
C37_CounterCountsCalls ==
    \A i \in Insts :
       /\ active_calls[i] >= 0
       /\ active_calls[i] = CallsInProgress(i)
       /\ no_active_calls[i] <=> active_calls[i] = 0

\* on_message raised and ended its worker, on_request is in progress and is
\* the one call counted
C37_Witness ==
    \E i \in Insts :
       /\ msgPc[i] = "dead" /\ req[i].pc = "in_call"
       /\ active_calls[i] = 1 /\ ~no_active_calls[i]


\* The aligning service with its listen thread running: the thread's loop
\* takes its next round (the wait on _new_data_event has a timeout and the
\* thread is scheduled), the publishing of an output ends; whether another
\* message arrives is up to the senders.
FairService ==
    /\ SpecService
    /\ WF_vars(\E produces \in BOOLEAN : service_listen(produces))
    /\ WF_vars(service_output_done)

\* C38: whenever the buffers of a running service hold a tuple that can be
\* aligned, execute is eventually called again, also when no further message
\* arrives: the new-data event leaves no alignable tuple waiting.
C38_AlignableIsExecuted ==
    \A n \in 0..MaxMsgs :
       (CanAlign /\ svc.executed = n) ~> (svc.executed > n)


\* A service's listen thread until it ends: messages arrive, also while a
\* round scans the buffers, execute returns or raises, stop() sets the
\* stop-signal.
NextWorker ==
    \/ \E kind \in Kinds, src \in OneSrc, ts \in Ts :
          /\ SumReceived(Keys) < MaxMsgs
          /\ service_on_message(kind, src, ts)
    \/ \E produces \in BOOLEAN : service_listen(produces)
    \/ service_output_done
    \/ service_execute_raises
    \/ \E kind \in Kinds, src \in OneSrc, ts \in Ts :
          /\ SumReceived(Keys) < MaxMsgs
          /\ service_scan_mutated(kind, src, ts)
    \/ service_signal_stop
    \/ service_listen_exit

SpecWorker == Init /\ [][NextWorker]_vars

\* C39: the alignment worker of a service leaves its loop only after the
\* stop-signal is set: neither an exception of execute nor an on_message
\* call that changes a buffer the worker is scanning ends it before.
C39_WorkerEndsOnlyOnStop == svc.listen # "running" => svc.stop


\* exit_handler ran through its body: _cleanup_in_progress is set and no
\* exit_handler frame is left on the stack
ExitHandlerHasRun == app.flag /\ app.frames = <<>>

\* C40: once the application exit handler has run, the event that
\* get_shutdown_event() returns is set, whether it was first created before
\* or after the exit handler ran.
C40_ShutdownEventSetAfterExit ==
    (ExitHandlerHasRun /\ app.shutdown_event # None) => app.shutdown_event = "set"

====
